---- MODULE Spec2Model ----
(***************************************************************************)
(* A model of the dispatch engine of @aura-stack/router: route pattern     *)
(* compilation and matching, request-context construction, the two-tier    *)
(* middleware pipeline, the error-to-response translation and the          *)
(* per-method dispatcher built by createRouter.                            *)
(*                                                                         *)
(* Strings are sequences of one-character strings, so that the regular     *)
(* expressions of the source are computed character by character.          *)
(***************************************************************************)
EXTENDS Integers, Sequences, FiniteSets, TLC

(***************************************************************************)
(* Bounds of the model.                                                    *)
(***************************************************************************)
\* longest list of router-global middlewares given to createRouter
MaxGlobal == 2
\* longest list of endpoint middlewares in an endpoint's config
MaxMw == 2
\* longest route pattern given to createRoutePattern, the leading '/' not counted
MaxRouteLen == 4
\* longest path a pattern is tested on, the leading '/' not counted
MaxPathLen == 4

(***************************************************************************)
(* Strings.                                                                *)
(***************************************************************************)
SLASH == "/"
COLON == ":"

\* the empty map (an object without keys, an empty Headers / URLSearchParams)
EmptyMap == [k \in {} |-> ""]

\* the map m with key k set to v (Headers.set, URLSearchParams.set, obj[k] = v)
MapSet(m, k, v) == [x \in (DOMAIN m) \cup {k} |-> IF x = k THEN v ELSE m[x]]

\* the '/'-delimited pieces of a string: String.prototype.split("/")
RECURSIVE SplitFrom(_, _, _)
SplitFrom(s, i, cur) ==
    IF i > Len(s) THEN <<cur>>
    ELSE IF s[i] = SLASH THEN <<cur>> \o SplitFrom(s, i + 1, <<>>)
    ELSE SplitFrom(s, i + 1, Append(cur, s[i]))

Split(s) == SplitFrom(s, 1, <<>>)

\* "/" + segs.join("/"): the serialisation of a URL path
RECURSIVE JoinPath(_)
JoinPath(segs) ==
    IF segs = <<>> THEN <<>>
    ELSE <<SLASH>> \o Head(segs) \o JoinPath(Tail(segs))

(***************************************************************************)
(* The path of a URL, as `new URL(url).pathname` gives it: the URL parser  *)
(* resolves "." and ".." segments (also written %2e) before the router     *)
(* sees the path.                                                          *)
(***************************************************************************)
IsSingleDot(seg) ==
    seg \in { <<".">>, <<"%", "2", "e">>, <<"%", "2", "E">> }

IsDoubleDot(seg) ==
    \E a, b \in { <<".">>, <<"%", "2", "e">>, <<"%", "2", "E">> } : seg = a \o b

RECURSIVE ResolveDots(_, _)
ResolveDots(segs, acc) ==
    IF segs = <<>> THEN acc
    ELSE LET seg  == Head(segs)
             last == Len(segs) = 1
         IN  IF IsDoubleDot(seg)
             THEN LET popped == IF acc = <<>> THEN acc ELSE SubSeq(acc, 1, Len(acc) - 1)
                  IN  ResolveDots(Tail(segs), IF last THEN Append(popped, <<>>) ELSE popped)
             ELSE IF IsSingleDot(seg)
             THEN ResolveDots(Tail(segs), IF last THEN Append(acc, <<>>) ELSE acc)
             ELSE ResolveDots(Tail(segs), Append(acc, seg))

\* raw is the path as the client wrote it, starting with "/"
URLPathname(raw) == JoinPath(ResolveDots(Split(Tail(raw)), <<>>))

(***************************************************************************)
(* createRoutePattern: the route with every ":name" replaced by the group  *)
(* ([^/]+), anchored at both ends.  The compiled expression is a sequence  *)
(* of tokens, a literal character or a capture group.                      *)
(***************************************************************************)
Lit(c) == [lit |-> TRUE, ch |-> c]
Group == [lit |-> FALSE, ch |-> ""]

\* the end of the run of non-'/' characters that starts at i
RECURSIVE RunEnd(_, _)
RunEnd(s, i) ==
    IF i > Len(s) \/ s[i] = SLASH THEN i - 1 ELSE RunEnd(s, i + 1)

\* route.replace(/:[^/]+/g, "([^/]+)"): a ':' followed by at least one
\* non-'/' character starts a group, which takes the whole run
RECURSIVE PatternFrom(_, _)
PatternFrom(route, i) ==
    IF i > Len(route) THEN <<>>
    ELSE IF route[i] = COLON /\ i < Len(route) /\ route[i + 1] # SLASH
    THEN LET e == RunEnd(route, i + 1)
         IN  <<Group>> \o PatternFrom(route, e + 1)
    ELSE <<Lit(route[i])>> \o PatternFrom(route, i + 1)

\* a compilation that would take every character of the route literally
createRoutePatternLiteral(route) == [i \in 1..Len(route) |-> Lit(route[i])]

createRoutePattern(route) == PatternFrom(route, 1)

\* the ways the tokens from t on match path from position i on to its end;
\* each is the sequence of the groups' captured strings.  A group takes
\* one or more non-'/' characters, the longest run first (greedy).
RECURSIVE MatchesFrom(_, _, _, _)
MatchesFrom(toks, t, path, i) ==
    IF t > Len(toks)
    THEN IF i > Len(path) THEN << <<>> >> ELSE <<>>
    ELSE IF toks[t].lit
    THEN IF i <= Len(path) /\ path[i] = toks[t].ch
         THEN MatchesFrom(toks, t + 1, path, i + 1)
         ELSE <<>>
    ELSE LET e == RunEnd(path, i)
             Try[k \in 0..Len(path)] ==
                 \* the group takes path[i..k], k from e down to i
                 IF k < i THEN <<>>
                 ELSE LET rest == MatchesFrom(toks, t + 1, path, k + 1)
                      IN  [j \in 1..Len(rest) |-> <<SubSeq(path, i, k)>> \o rest[j]]
                          \o Try[k - 1]
         IN  IF e < i THEN <<>> ELSE Try[e]

\* RegExp.prototype.exec: the captures of the first match, or "null"
RegexExec(regex, str) ==
    LET all == MatchesFrom(regex, 1, str, 1)
    IN  IF all = <<>> THEN [matched |-> FALSE, groups |-> <<>>]
        ELSE [matched |-> TRUE, groups |-> all[1]]

\* a test that would also accept str with one trailing '/' taken away
RegexTestSlash(regex, str) ==
    \/ RegexExec(regex, str).matched
    \/ /\ Len(str) > 1
       /\ str[Len(str)] = SLASH
       /\ RegexExec(regex, SubSeq(str, 1, Len(str) - 1)).matched

\* RegExp.prototype.test
RegexTest(regex, str) == RegexExec(regex, str).matched

(***************************************************************************)
(* Values of the host platform: errors, responses, requests.               *)
(***************************************************************************)
\* a thrown value: an Error of the platform or of user code.  isRouter is
\* `error instanceof AuraStackRouterError`
NoError == [name |-> "", message |-> <<>>, isRouter |-> FALSE, status |-> 0, statusText |-> ""]

PlainError(name, message) ==
    [name |-> name, message |-> message, isRouter |-> FALSE, status |-> 0, statusText |-> ""]

(***************************************************************************)
(* error.ts                                                                *)
(***************************************************************************)
\* the entries of statusCode, in the order of the object literal
statusCodeEntries ==
    << <<"OK", 200>>, <<"CREATED", 201>>, <<"ACCEPTED", 202>>, <<"NO_CONTENT", 204>>,
       <<"MULTIPLE_CHOICES", 300>>, <<"MOVED_PERMANENTLY", 301>>, <<"FOUND", 302>>,
       <<"SEE_OTHER", 303>>, <<"NOT_MODIFIED", 304>>, <<"TEMPORARY_REDIRECT", 307>>,
       <<"BAD_REQUEST", 400>>, <<"UNAUTHORIZED", 401>>, <<"PAYMENT_REQUIRED", 402>>,
       <<"FORBIDDEN", 403>>, <<"NOT_FOUND", 404>>, <<"METHOD_NOT_ALLOWED", 405>>,
       <<"NOT_ACCEPTABLE", 406>>, <<"PROXY_AUTHENTICATION_REQUIRED", 407>>,
       <<"UNPROCESSABLE_ENTITY", 422>>, <<"INTERNAL_SERVER_ERROR", 500>>,
       <<"NOT_IMPLEMENTED", 501>>, <<"BAD_GATEWAY", 502>>, <<"SERVICE_UNAVAILABLE", 503>>,
       <<"HTTP_VERSION_NOT_SUPPORTED", 505>> >>

statusCode(type) ==
    LET i == CHOOSE k \in DOMAIN statusCodeEntries : statusCodeEntries[k][1] = type
    IN  statusCodeEntries[i][2]

\* statusText, the reverse mapping: the reduce keeps the last name of a code
statusTextOf(code) ==
    LET hits == { k \in DOMAIN statusCodeEntries : statusCodeEntries[k][2] = code }
        last == CHOOSE k \in hits : \A j \in hits : j <= k
    IN  statusCodeEntries[last][1]

\* new AuraStackRouterError(type, message)
AuraStackRouterError(type, message) ==
    [name |-> "AuraStackRouterError", message |-> message, isRouter |-> TRUE,
     status |-> statusCode(type), statusText |-> statusTextOf(statusCode(type))]

\* the snapshot of a request context that a handler puts in its response
NoSeen ==
    [request |-> 0, context |-> 0, params |-> EmptyMap,
     searchParams |-> [kind |-> "", value |-> EmptyMap],
     headers |-> EmptyMap, body |-> [type |-> "", value |-> EmptyMap]]

NoResponse == [status |-> 0, statusText |-> "", message |-> <<>>, from |-> "", seen |-> NoSeen]

\* Response.json({ message }, { status, statusText }) as the router builds it
JsonResponse(message, status, statusText) ==
    [status |-> status, statusText |-> statusText, message |-> message,
     from |-> "router", seen |-> NoSeen]

\* a translator that would put the error's own message in the response
TranslateLeaking(error) ==
    IF error.isRouter
    THEN JsonResponse(error.message, error.status, error.statusText)
    ELSE JsonResponse(error.message, 500, "")

(***************************************************************************)
(* The catch block of an exposed method handler: the error translator.     *)
(***************************************************************************)
Translate(error) ==
    IF error.isRouter
    THEN JsonResponse(error.message, error.status, error.statusText)
    ELSE JsonResponse(<<"Internal Server Error">>, 500, "")

\* the statuses of a response that cannot have a body
nullBodyStatus == {101, 103, 204, 205, 304}

\* Response.json(data, init): a TypeError when init.status is one that cannot
\* have a body
ResponseJson(response) ==
    IF response.status \in nullBodyStatus
    THEN [threw |-> TRUE, value |-> NoResponse,
          error |-> PlainError("TypeError", <<"Invalid response status code">>)]
    ELSE [threw |-> FALSE, value |-> response, error |-> NoError]

\* the response of an exposed method handler when no endpoint matches
NotFoundResponse == JsonResponse(<<"Not Found">>, 404, "")

(***************************************************************************)
(* assert.ts                                                               *)
(***************************************************************************)
supportedMethods ==
    {"GET", "POST", "DELETE", "PUT", "PATCH", "OPTIONS", "HEAD", "TRACE", "CONNECT"}

supportedBodyMethods == {"POST", "PUT", "PATCH"}

isSupportedMethod(method) == method \in supportedMethods

\* a check that would let every method carry a decoded body
isSupportedBodyMethodAny(method) == TRUE

isSupportedBodyMethod(method) == method \in supportedBodyMethods

(***************************************************************************)
(* Schemas.  A schema is an object schema with required string fields;     *)
(* safeParse succeeds when every required key is present and returns the   *)
(* input restricted to the schema's keys.                                  *)
(***************************************************************************)
NoSchema == [defined |-> FALSE, required |-> {}]
ObjectSchema(keys) == [defined |-> TRUE, required |-> keys]

safeParse(schema, input) ==
    LET missing == schema.required \ DOMAIN input
    IN  IF missing = {}
        THEN [success |-> TRUE, data |-> [k \in schema.required |-> input[k]], error |-> ""]
        ELSE [success |-> FALSE, data |-> EmptyMap, error |-> CHOOSE k \in missing : TRUE]

(***************************************************************************)
(* context.ts                                                              *)
(***************************************************************************)
\* the outcome of a function that may throw
Returned(v) == [threw |-> FALSE, value |-> v, error |-> NoError]
Threw(v, e) == [threw |-> TRUE, value |-> v, error |-> e]

IsHexDigit(c) ==
    c \in {"0", "1", "2", "3", "4", "5", "6", "7", "8", "9",
           "a", "b", "c", "d", "e", "f", "A", "B", "C", "D", "E", "F"}

\* the character an escape %XY stands for (the escapes the model's paths use)
EscapedChar(hi, lo) ==
    CASE hi = "2" /\ lo = "0" -> " "
      [] hi = "2" /\ lo = "5" -> "%"
      [] hi = "2" /\ lo \in {"e", "E"} -> "."
      [] hi = "2" /\ lo \in {"f", "F"} -> "/"
      [] hi = "3" /\ lo \in {"c", "C"} -> "<"
      [] hi = "4" /\ lo = "1" -> "A"
      [] OTHER -> "?"

\* decodeURIComponent: every %XY is replaced by its character; a '%' that
\* is not followed by two hexadecimal digits raises URIError
RECURSIVE decodeFrom(_, _)
decodeFrom(s, i) ==
    IF i > Len(s) THEN Returned(<<>>)
    ELSE IF s[i] # "%"
    THEN LET rest == decodeFrom(s, i + 1)
         IN  IF rest.threw THEN rest ELSE Returned(<<s[i]>> \o rest.value)
    ELSE IF i + 2 <= Len(s) /\ IsHexDigit(s[i + 1]) /\ IsHexDigit(s[i + 2])
    THEN LET rest == decodeFrom(s, i + 3)
         IN  IF rest.threw THEN rest
             ELSE Returned(<<EscapedChar(s[i + 1], s[i + 2])>> \o rest.value)
    ELSE Threw(<<>>, PlainError("URIError", <<"URI malformed">>))

decodeURIComponent(s) == decodeFrom(s, 1)

\* seg.replace(":", ""): the first ':' of the string removed
RECURSIVE RemoveFirstColon(_)
RemoveFirstColon(s) ==
    IF s = <<>> THEN s
    ELSE IF Head(s) = COLON THEN Tail(s)
    ELSE <<Head(s)>> \o RemoveFirstColon(Tail(s))

\* the reduce of getRouteParams over the names, from index idx on
RECURSIVE reduceParams(_, _, _, _)
reduceParams(params, values, idx, previous) ==
    IF idx > Len(params) THEN Returned(previous)
    ELSE LET raw == IF idx <= Len(values) THEN values[idx] ELSE <<>>
             dec == decodeURIComponent(raw)
         IN  IF dec.threw THEN Threw(EmptyMap, dec.error)
             ELSE reduceParams(params, values, idx + 1,
                               MapSet(previous, params[idx], dec.value))

getRouteParams(route, path) ==
    LET routeRegex == createRoutePattern(route)
        names      == RegexExec(routeRegex, route)
        params     == [i \in 1..Len(names.groups) |-> RemoveFirstColon(names.groups[i])]
        values     == RegexExec(routeRegex, path).groups
    IN  IF ~RegexTest(routeRegex, path) THEN Returned(EmptyMap)
        ELSE IF ~names.matched THEN Returned(EmptyMap)
        ELSE reduceParams(params, values, 1, EmptyMap)

\* a getSearchParams that would never consult the schema
getSearchParamsUnchecked(query, config) ==
    Returned([kind |-> "URLSearchParams", value |-> query])

\* query is the map Object.fromEntries(url.searchParams.entries())
getSearchParams(query, config) ==
    IF config.schemas.searchParams.defined
    THEN LET parsed == safeParse(config.schemas.searchParams, query)
         IN  IF ~parsed.success
             THEN Threw([kind |-> "", value |-> EmptyMap],
                        PlainError("Error", <<"Invalid search parameters: ", parsed.error>>))
             ELSE Returned([kind |-> "object", value |-> parsed.data])
    ELSE Returned([kind |-> "URLSearchParams", value |-> query])

\* a getHeaders that would hand out the Headers object of the request
getHeadersSame(heap, requestHeaders) == [heap |-> heap, ref |-> requestHeaders]

\* new Headers(request.headers): a new object with the same entries.  heap
\* holds the Headers objects of the call, requestHeaders is the reference
\* of the request's; the result is the heap with the new object and its
\* reference
getHeaders(heap, requestHeaders) ==
    [heap |-> Append(heap, heap[requestHeaders]), ref |-> Len(heap) + 1]

\* the payload of a request: nothing, a string that is a JSON object, a
\* string that is not JSON, or bytes (an ArrayBuffer)
NoPayload == [kind |-> "none", json |-> EmptyMap]
JsonPayload(obj) == [kind |-> "json", json |-> obj]
TextPayload == [kind |-> "text", json |-> EmptyMap]
BytesPayload == [kind |-> "bytes", json |-> EmptyMap]

\* the values a request context's body takes
BodyValue(type, payload) == [type |-> type, value |-> payload.json]

\* a match that would take every content type for the one looked for
TypeIncludesAny(contentType, needle) == TRUE

\* String.prototype.includes on the Content-Type header, over the header
\* values of the model
TypeIncludes(contentType, needle) ==
    CASE needle = "text/" ->
            contentType \in {"text/plain", "text/html", "text/plain;charset=UTF-8"}
      [] needle = "image/" -> contentType = "image/png"
      [] needle = "video/" -> contentType = "video/mp4"
      [] needle = "audio/" -> contentType = "audio/mpeg"
      [] OTHER -> contentType = needle

\* request.json(): SyntaxError unless the payload is JSON text
requestJson(payload) ==
    IF payload.kind = "json" THEN Returned(BodyValue("json", payload))
    ELSE Threw(BodyValue("", NoPayload),
               PlainError("SyntaxError", <<"Unexpected end of JSON input">>))

\* a decoder that would refuse a content type it does not recognise
unsupportedContentTypeRefused ==
    Threw(BodyValue("", NoPayload), PlainError("Error", <<"Unsupported Content-Type">>))

\* the end of getBody, reached by a content type none of the branches
\* recognises: `return null`
unsupportedContentType == Returned(BodyValue("null", NoPayload))

getBody(method, headers, payload, config) ==
    IF ~isSupportedBodyMethod(method) THEN Returned(BodyValue("undefined", NoPayload))
    ELSE LET contentType ==
                 IF "content-type" \in DOMAIN headers THEN headers["content-type"] ELSE ""
         IN  IF TypeIncludes(contentType, "application/json")
             THEN LET json == requestJson(payload)
                  IN  IF json.threw THEN json
                      ELSE IF config.schemas.body.defined
                      THEN LET parsed == safeParse(config.schemas.body, json.value.value)
                           IN  IF ~parsed.success
                               THEN Threw(BodyValue("", NoPayload),
                                          PlainError("Error", <<"Invalid request body">>))
                               ELSE Returned([type |-> "json", value |-> parsed.data])
                      ELSE json
             ELSE IF TypeIncludes(contentType, "application/x-www-form-urlencoded")
                     \/ TypeIncludes(contentType, "multipart/form-data")
             THEN Returned(BodyValue("formData", payload))
             ELSE IF TypeIncludes(contentType, "text/")
             THEN Returned(BodyValue("text", payload))
             ELSE IF TypeIncludes(contentType, "application/octet-stream")
             THEN Returned(BodyValue("arrayBuffer", payload))
             ELSE IF TypeIncludes(contentType, "image/") \/ TypeIncludes(contentType, "video/")
                     \/ TypeIncludes(contentType, "audio/")
             THEN Returned(BodyValue("blob", payload))
             ELSE unsupportedContentType

(***************************************************************************)
(* endpoint.ts: createEndpoint                                             *)
(***************************************************************************)
RouteChars ==
    {"a", "b", "c", "d", "e", "f", "g", "i", "m", "o", "s", "u", "v", "x",
     "A", "U", "0", "1", "2", "/", "_", ":", "-"}

\* /^\/[a-zA-Z0-9/_:-]*$/ over the characters the model uses
isValidRoute(route) ==
    /\ Len(route) >= 1
    /\ route[1] = SLASH
    /\ \A i \in 2..Len(route) : route[i] \in RouteChars

\* a handler is a value; callable tells `typeof handler === "function"`
isValidHandler(handler) == handler.callable

NoConfig == [schemas |-> [body |-> NoSchema, searchParams |-> NoSchema], middlewares |-> <<>>]

NoEndpoint ==
    [method |-> "", route |-> <<>>,
     handler |-> [callable |-> FALSE, kind |-> "", tag |-> ""], config |-> NoConfig]

\* the endpoint configuration left out of a call
UndefinedConfig == [undefined |-> TRUE]

\* the default of the parameter: `config = {}`
defaultConfig(config) == IF config = UndefinedConfig THEN NoConfig ELSE config

createEndpoint(method, route, handler, config) ==
    IF ~isSupportedMethod(method)
    THEN Threw(NoEndpoint, PlainError("Error", <<"Unsupported HTTP method: ", method>>))
    ELSE IF ~isValidRoute(route)
    THEN Threw(NoEndpoint, PlainError("Error", <<"Invalid route format: ">>))
    ELSE IF ~isValidHandler(handler)
    THEN Threw(NoEndpoint, PlainError("Error", <<"Handler must be a function">>))
    ELSE Returned([method |-> method, route |-> route, handler |-> handler,
                   config |-> defaultConfig(config)])

(***************************************************************************)
(* createRouter: the endpoints grouped by method, in list order, and one   *)
(* handler per key of the groups.                                          *)
(***************************************************************************)
RECURSIVE groupEndpoints(_, _, _)
groupEndpoints(eps, i, groups) ==
    IF i > Len(eps) THEN groups
    ELSE LET endpoint == eps[i]
             has      == endpoint.method \in DOMAIN groups
             list     == IF has THEN groups[endpoint.method] ELSE <<>>
         IN  groupEndpoints(eps, i + 1, MapSet(groups, endpoint.method, Append(list, endpoint)))

createRouterGroups(eps) == groupEndpoints(eps, 1, [m \in {} |-> <<>>])

\* a router that would expose the five methods whatever its endpoints
createRouterServerAll(eps) == {"GET", "POST", "DELETE", "PUT", "PATCH"}

\* the keys of the object createRouter returns
createRouterServer(eps) == DOMAIN createRouterGroups(eps)

\* a prefixing that would leave the route as the endpoint declared it
withoutBasePath(basePath, route) == route

\* `${config.basePath}${endpoint.route}` when basePath is set
withBasePath(basePath, route) == IF basePath # <<>> THEN basePath \o route ELSE route

\* a search that would keep the last endpoint of the list that matches
RECURSIVE findLastFrom(_, _, _, _)
findLastFrom(list, i, basePath, pathname) ==
    LET later == IF i > Len(list) THEN 0 ELSE findLastFrom(list, i + 1, basePath, pathname)
    IN  IF i > Len(list) THEN 0
        ELSE IF later # 0 THEN later
        ELSE IF RegexTest(createRoutePattern(withBasePath(basePath, list[i].route)), pathname)
        THEN i
        ELSE 0

\* groups.get(method)?.find(...): the index of the first endpoint of the
\* list whose pattern matches pathname, 0 when there is none
RECURSIVE findFrom(_, _, _, _)
findFrom(list, i, basePath, pathname) ==
    IF i > Len(list) THEN 0
    ELSE IF RegexTest(createRoutePattern(withBasePath(basePath, list[i].route)), pathname)
    THEN i
    ELSE findFrom(list, i + 1, basePath, pathname)

findEndpoint(list, basePath, pathname) == findFrom(list, 1, basePath, pathname)

(***************************************************************************)
(* User code: handlers and middlewares.  The router calls them and knows   *)
(* nothing of what they do; the model gives each a small repertoire.       *)
(***************************************************************************)
\* respond:     an async function that returns a response
\* throwSync:   a plain function that throws an Error before it returns
\* throwAsync:  an async function that throws an Error: its promise rejects
\* throwRouter: a plain function that throws an AuraStackRouterError
Handler(kind, tag) == [callable |-> TRUE, kind |-> kind, tag |-> tag]

\* addHeader:   request.headers.set("x-powered-by", ...); return request
\* requireAuth: a 403 response unless the request has an authorization header
\* throws:      throws an Error
\* and, in some routers only,
\* rewrite:     return new Request(".../se", request) with the header
\*              x-rewritten set: another Request object
GlobalKinds == {"addHeader", "requireAuth", "throws"}

\* setHeader:  ctx.headers.set("session-token", ...); return ctx
\* setParams:  ctx.params = { oauth: "s" }; return ctx
\* newContext: return { ...ctx, params: { oauth: "g" } }, a new object
\* throws:     throws an Error
MwKinds == {"setHeader", "setParams", "newContext", "throws"}

\* typeof middleware === "function"
isFunction(middleware) == middleware \in GlobalKinds \cup MwKinds \cup {"rewrite"}

\* the lists of length at most n over the set S
RECURSIVE ListsUpTo(_, _)
ListsUpTo(S, n) ==
    IF n = 0 THEN { <<>> }
    ELSE LET shorter == ListsUpTo(S, n - 1)
         IN  shorter \cup { Append(l, x) : l \in shorter, x \in S }

\* a middleware entry that is not a function (a string, an object)
NotFunction == "notFunction"

GlobalLists == ListsUpTo(GlobalKinds, MaxGlobal)
MwLists == ListsUpTo(MwKinds, MaxMw)

(***************************************************************************)
(* The endpoints and routers of the model, after the repository's tests.   *)
(***************************************************************************)
rUsers   == <<"/", "u">>
rUser    == <<"/", "u", "/", ":", "i", "d">>
rMe      == <<"/", "u", "/", "m", "e">>
rFaulty  == <<"/", "f">>
rFaulty2 == <<"/", "g">>
rGuarded == <<"/", "v">>
rEmpty   == <<"/", "e">>
rCred    == <<"/", "c">>
rSignIn  == <<"/", "s", "/", ":", "o">>
rSession == <<"/", "s", "e">>
apiV1    == <<"/", "a", "/", "v", "1">>

Schemas(body, searchParams) == [body |-> body, searchParams |-> searchParams]

getUsers   == createEndpoint("GET", rUsers, Handler("respond", "getUsers"), NoConfig).value
getUser    == createEndpoint("GET", rUser, Handler("respond", "getUser"), NoConfig).value
getMe      == createEndpoint("GET", rMe, Handler("respond", "getMe"), NoConfig).value
createUser == createEndpoint("POST", rUsers, Handler("respond", "createUser"), NoConfig).value
deleteUser == createEndpoint("DELETE", rUser, Handler("respond", "deleteUser"), NoConfig).value
faulty     == createEndpoint("GET", rFaulty, Handler("throwAsync", "faulty"), NoConfig).value
faultySync == createEndpoint("GET", rFaulty2, Handler("throwSync", "faultySync"), NoConfig).value
guarded    == createEndpoint("GET", rGuarded, Handler("throwRouter", "guarded"), NoConfig).value
empty      == createEndpoint("GET", rEmpty, Handler("throwRouter", "empty"), NoConfig).value

credentials(ms) ==
    createEndpoint("POST", rCred, Handler("respond", "credentials"),
        [schemas |-> Schemas(ObjectSchema({"username", "password"}), NoSchema),
         middlewares |-> ms]).value

signIn(ms) ==
    createEndpoint("GET", rSignIn, Handler("respond", "signIn"),
        [schemas |-> Schemas(NoSchema, ObjectSchema({"redirect_uri"})),
         middlewares |-> ms]).value

session(ms) ==
    createEndpoint("GET", rSession, Handler("respond", "session"),
        [schemas |-> Schemas(NoSchema, NoSchema), middlewares |-> ms]).value

usersRouter == <<getUsers, getUser, createUser, deleteUser, faulty, faultySync, guarded, empty>>
authRouter(ms) == <<signIn(ms), session(ms), credentials(ms)>>

\* config.onError: undefined, or a hook (error, request) => Response that
\* answers 500 as the one of example.ts does, or one that throws
NoHook == "undefined"
OnErrorKinds == {"responds", "throws"}

\* the arguments of createRouter: the endpoint list, the base path and the
\* error hook
RouterArgs ==
    { [endpoints |-> <<>>, basePath |-> <<>>, onError |-> NoHook],
      [endpoints |-> usersRouter, basePath |-> <<>>, onError |-> NoHook],
      [endpoints |-> <<getMe, getUser>>, basePath |-> <<>>, onError |-> NoHook],
      [endpoints |-> <<getUser, getMe>>, basePath |-> <<>>, onError |-> NoHook],
      [endpoints |-> <<getUsers, createUser>>, basePath |-> apiV1, onError |-> NoHook] }
    \cup { [endpoints |-> authRouter(ms), basePath |-> <<>>, onError |-> NoHook] : ms \in MwLists }
    \cup { [endpoints |-> authRouter(<<"setHeader", NotFunction>>), basePath |-> <<>>,
             onError |-> NoHook] }
    \cup { [endpoints |-> <<getUsers, faultySync, guarded>>, basePath |-> <<>>, onError |-> h] :
              h \in OnErrorKinds }

\* config.middlewares: undefined, or a list
NoMiddlewares == [defined |-> FALSE, list |-> <<>>]
GlobalConfigs ==
    {NoMiddlewares} \cup { [defined |-> TRUE, list |-> l] : l \in GlobalLists }
    \cup { [defined |-> TRUE, list |-> l] :
              l \in {<<"addHeader", NotFunction>>, <<"rewrite">>, <<"rewrite", "addHeader">>} }

(***************************************************************************)
(* The requests of the model.                                              *)
(***************************************************************************)
\* new Request(url, {method, headers, body}): a string body without a
\* Content-Type header gets the type text/plain;charset=UTF-8, bytes get
\* none
Request(method, path, query, headers, payload) ==
    [method |-> method, path |-> path, query |-> query,
     headers |-> IF payload.kind \in {"json", "text"} /\ "content-type" \notin DOMAIN headers
                 THEN MapSet(headers, "content-type", "text/plain;charset=UTF-8")
                 ELSE headers,
     payload |-> payload]

NoRequest == Request("", <<>>, EmptyMap, EmptyMap, NoPayload)

pUser1 == <<"/", "u", "/", "1">>
pUser2 == <<"/", "u", "/", "2">>
pUpper == <<"/", "U", "/", "1">>
pSlash == <<"/", "u", "/">>
pNone  == <<"/", "x">>
pOauth == <<"/", "s", "/", "g">>

\* paths with "." and ".." segments: /u/./1, /x/../u, /u/1/.. and /%2e/u
pDot       == <<"/", "u", "/", ".", "/", "1">>
pDotDot    == <<"/", "x", "/", ".", ".", "/", "u">>
pDotDotEnd == <<"/", "u", "/", "1", "/", ".", ".">>
pDotEscape == <<"/", "%", "2", "e", "/", "u">>
DotPaths == {pDot, pDotDot, pDotDotEnd, pDotEscape}

\* /u/%: a malformed percent-escape where the route /u/:id has its parameter
pBadEscape == <<"/", "u", "/", "%">>

Paths ==
    { rUsers, rMe, rFaulty, rFaulty2, rGuarded, rEmpty, rCred, rSession,
      pUser1,          \* /u/:id
      pUpper,          \* another letter case
      pSlash,          \* a trailing slash
      pNone,           \* no route
      pOauth,          \* /s/:o
      apiV1 \o rUsers,
      pBadEscape }
    \cup DotPaths

RequestMethods == {"GET", "POST", "PATCH", "INVALID"}

WithAuth == [h \in {"authorization"} |-> "Bearer t"]
ContentType(t) == [h \in {"content-type"} |-> t]

FullCredentials == [k \in {"username", "password"} |-> IF k = "username" THEN "John" ELSE "secret"]
PartialCredentials == [k \in {"username"} |-> "John"]

PlainRequests ==
    { Request("GET", p, EmptyMap, EmptyMap, NoPayload) : p \in Paths }
    \cup { Request(m, p, EmptyMap, EmptyMap, NoPayload) :
              m \in RequestMethods, p \in {rUsers, pUser1, pNone} }

AuthRequests ==
    { Request("GET", p, EmptyMap, WithAuth, NoPayload) :
        p \in {rSession, rFaulty, rFaulty2, rGuarded, pNone, pOauth} }

BodyRequests ==
    { Request(m, rCred, EmptyMap, h, b) :
        m \in {"POST", "DELETE"},
        h \in {EmptyMap, ContentType("application/json"), ContentType("application/xml")},
        b \in {JsonPayload(FullCredentials), JsonPayload(PartialCredentials), TextPayload,
                BytesPayload} }

QueryRequests ==
    { Request("GET", pOauth, q, EmptyMap, NoPayload) :
        q \in { [k \in {"redirect_uri"} |-> "url"], [k \in {"state"} |-> "abc"] } }

Requests == PlainRequests \cup AuthRequests \cup BodyRequests \cup QueryRequests

\* the routers and requests of the runs with two calls in flight
PairRouterArgs ==
    { [endpoints |-> usersRouter, basePath |-> <<>>, onError |-> NoHook],
      [endpoints |-> authRouter(<<"setHeader", "newContext">>), basePath |-> <<>>, onError |-> NoHook] }

PairGlobalConfigs ==
    { NoMiddlewares,
      [defined |-> TRUE, list |-> <<"addHeader">>],
      [defined |-> TRUE, list |-> <<"requireAuth", "throws">>] }

PairRequests ==
    { Request("GET", p, EmptyMap, EmptyMap, NoPayload) :
        p \in {rUsers, pUser1, pUser2, rFaulty, rFaulty2, rGuarded, rSession, pNone} }
    \cup { Request("GET", p, EmptyMap, WithAuth, NoPayload) : p \in {rSession, rFaulty2} }
    \cup { Request("POST", rCred, EmptyMap, ContentType("application/json"), b) :
              b \in {JsonPayload(FullCredentials), JsonPayload(PartialCredentials), TextPayload} }

(***************************************************************************)
(* The state: one router, the calls made on it, and the objects each call  *)
(* creates.  Objects that user code can mutate (requests, headers,         *)
(* contexts) live in per-call heaps and are named by their index.          *)
(***************************************************************************)
VARIABLES
    endpoints,  \* the first argument of createRouter
    config,     \* the second: [basePath, middlewares]
    groups,     \* the Map of createRouter: method -> endpoints, in list order
    server,     \* the keys of the object createRouter returned
    active,     \* the calls this run makes
    input,      \* what the caller did: server[input.method](input.request)
    pc,         \* where each call stands
    frame,      \* the local variables of each call
    requests,   \* the Request objects of each call, by reference
    headers,    \* the Headers objects of each call, by reference
    contexts,   \* the context objects of each call, by reference
    log,        \* the steps of each call, in the order they ran
    result,     \* the promise each call returned
    previous,   \* the log and the result of the same call made before
    probe       \* a function of the library called on its own: arguments and results

vars ==
    <<endpoints, config, groups, server, active, input, pc, frame, requests,
      headers, contexts, log, result, previous, probe>>

routerVars == <<endpoints, config, groups, server, active>>

Calls == {"r1", "r2"}

\* what a global middleware gives back, or is given: a Request (by
\* reference) or a Response
NoValue == [type |-> "", ref |-> 0, response |-> NoResponse]
RequestValue(ref) == [type |-> "request", ref |-> ref, response |-> NoResponse]
ResponseValue(response) == [type |-> "response", ref |-> 0, response |-> response]

\* a test that would take no value for a Response
instanceOfResponseNever(value) == FALSE

\* value instanceof Response
instanceOfResponse(value) == value.type = "response"

NoBody == [type |-> "", value |-> EmptyMap]

NoFrame ==
    [method |-> "", request |-> NoValue, executed |-> NoValue, globalRequest |-> NoValue,
     gi |-> 0, pathname |-> <<>>, endpoint |-> 0, body |-> NoBody, owner |-> "",
     context |-> 0, ctx |-> 0, mi |-> 0, groups |-> [m \in {} |-> <<>>]]

\* a router that would keep one context object and fill it in for every call
newContextObjectShared(r, heaps) == [owner |-> "r1", ref |-> 1]

\* `const context = { params, searchParams, headers, body }`: a new object
\* of the call that builds it
newContextObject(r, heaps) == [owner |-> r, ref |-> Len(heaps[r]) + 1]

\* the heap with the object written at the reference
PutObject(heap, ref, object) ==
    IF ref \in DOMAIN heap THEN [heap EXCEPT ![ref] = object] ELSE Append(heap, object)

NoContext ==
    [params |-> EmptyMap, searchParams |-> [kind |-> "", value |-> EmptyMap],
     headers |-> 0, body |-> NoBody]

NoInput == [method |-> "", request |-> NoRequest]

Pending == [state |-> "pending", response |-> NoResponse, error |-> NoError, caught |-> NoError]

\* the promise fulfilled with a response; caught is the error the catch
\* block translated, if it ran
Fulfilled(response, caught) ==
    [state |-> "fulfilled", response |-> response, error |-> NoError, caught |-> caught]

\* the promise rejected: the error reaches the caller
Rejected(error) ==
    [state |-> "rejected", response |-> NoResponse, error |-> error, caught |-> NoError]

NoPrevious == [ran |-> FALSE, log |-> <<>>, result |-> Pending]

Event(step, i) == [step |-> step, i |-> i]

\* no library function is being called on its own
NoProbe ==
    [pc |-> "", route |-> <<>>, path |-> <<>>, regex |-> <<>>, matched |-> FALSE,
     params |-> Returned(EmptyMap), method |-> "",
     handler |-> NoEndpoint.handler, config |-> UndefinedConfig,
     endpoint |-> Returned(NoEndpoint)]

\* the router createRouter(args.endpoints, {basePath, middlewares}) returns
Built(args, middlewares) ==
    /\ endpoints = args.endpoints
    /\ config = [basePath |-> args.basePath, middlewares |-> middlewares,
                 onError |-> args.onError]
    /\ groups = createRouterGroups(args.endpoints)
    /\ server = createRouterServer(args.endpoints)

Idle ==
    /\ input = [r \in Calls |-> NoInput]
    /\ pc = [r \in Calls |-> "idle"]
    /\ frame = [r \in Calls |-> NoFrame]
    /\ requests = [r \in Calls |-> <<>>]
    /\ headers = [r \in Calls |-> <<>>]
    /\ contexts = [r \in Calls |-> <<>>]
    /\ log = [r \in Calls |-> <<>>]
    /\ result = [r \in Calls |-> Pending]
    /\ previous = [r \in Calls |-> NoPrevious]

Init ==
    /\ \E args \in RouterArgs, middlewares \in GlobalConfigs : Built(args, middlewares)
    /\ active = {"r1"}
    /\ Idle
    /\ probe = NoProbe

\* the values of a call's local variables; frame[r].groups is the routing
\* table as it was when the call was made
TheEndpoint(r) == groups[frame[r].method][frame[r].endpoint]
TheRequest(r) == requests[r][frame[r].globalRequest.ref]

\* the try block ended by an exception: the catch block translates it
Catch(r, error) ==
    LET rendered == ResponseJson(Translate(error))
    IN  /\ pc' = [pc EXCEPT ![r] = "done"]
        /\ result' = [result EXCEPT ![r] =
                         IF rendered.threw
                         THEN [Rejected(rendered.error) EXCEPT !.caught = error]
                         ELSE Fulfilled(rendered.value, error)]

\* the method handler returned a response
Return(r, response) ==
    /\ pc' = [pc EXCEPT ![r] = "done"]
    /\ result' = [result EXCEPT ![r] = Fulfilled(response, NoError)]

(***************************************************************************)
(* server[method](request): the call enters executeGlobalMiddlewares.      *)
(***************************************************************************)
\* a dispatcher that would skip the router-global middlewares
noGlobalMiddlewaresAlways(middlewares) == TRUE

\* `if (!middlewares) return request`, or a loop over no middleware
noGlobalMiddlewares(middlewares) == ~middlewares.defined \/ middlewares.list = <<>>

Enter(r, method, request) ==
    LET none == noGlobalMiddlewares(config.middlewares)
    IN  /\ input' = [input EXCEPT ![r] = [method |-> method, request |-> request]]
        /\ requests' = [requests EXCEPT ![r] = << [request EXCEPT !.headers = 1] >>]
        /\ headers' = [headers EXCEPT ![r] = << request.headers >>]
        /\ contexts' = [contexts EXCEPT ![r] = <<>>]
        /\ log' = [log EXCEPT ![r] = <<>>]
        /\ result' = [result EXCEPT ![r] = Pending]
        /\ frame' = [frame EXCEPT ![r] =
               [NoFrame EXCEPT !.method = method, !.request = RequestValue(1), !.gi = 1,
                               !.owner = r, !.groups = groups,
                               !.globalRequest = IF none THEN RequestValue(1) ELSE NoValue]]
        /\ pc' = [pc EXCEPT ![r] = IF none THEN "match" ELSE "global"]

Call(r) ==
    /\ pc[r] = "idle"
    /\ \E method \in server, request \in (IF active = Calls THEN PairRequests ELSE Requests) :
           Enter(r, method, request)
    /\ UNCHANGED <<routerVars, probe, previous>>

\* the caller makes the same call once more, after the first has settled
Repeat(r) ==
    /\ pc[r] = "done"
    /\ ~previous[r].ran
    /\ previous' = [previous EXCEPT ![r] = [ran |-> TRUE, log |-> log[r], result |-> result[r]]]
    /\ Enter(r, input[r].method, input[r].request)
    /\ UNCHANGED <<routerVars, probe>>

(***************************************************************************)
(* executeGlobalMiddlewares: the next router-global middleware runs.       *)
(***************************************************************************)
\* a dispatcher that would go on with the request the caller passed in
lastRequestPassed(passed, executed) == passed

\* `request = executed` and, after the loop, `return request`: the request
\* the dispatch goes on with is the one the last middleware returned
lastRequest(passed, executed) == executed

Forbidden ==
    [status |-> 403, statusText |-> "", message |-> <<"Forbidden">>,
     from |-> "global", seen |-> NoSeen]

\* the body of the global middlewares of the model, called with a request
\* whose headers are hdrs
globalMiddlewareCode(middleware, request, hdrs) ==
    CASE middleware = "addHeader" ->
             [threw |-> FALSE, value |-> request, error |-> NoError,
              headers |-> MapSet(hdrs, "x-powered-by", "@aura-stack")]
      [] middleware = "requireAuth" ->
             [threw |-> FALSE, error |-> NoError, headers |-> hdrs,
              value |-> IF "authorization" \in DOMAIN hdrs THEN request
                        ELSE ResponseValue(Forbidden)]
      [] OTHER ->
             [threw |-> TRUE, value |-> NoValue, headers |-> hdrs,
              error |-> PlainError("Error", <<"Unauthorized">>)]

GlobalMiddleware(r) ==
    /\ pc[r] = "global"
    /\ LET f          == frame[r]
           middleware == config.middlewares.list[f.gi]
           last       == f.gi = Len(config.middlewares.list)
           isRequest  == f.request.type = "request"
           hdrRef     == IF isRequest THEN requests[r][f.request.ref].headers ELSE 0
           hdrs       == IF isRequest THEN headers[r][hdrRef] ELSE EmptyMap
           rewrite    == middleware = "rewrite" /\ isRequest
           ran        == IF rewrite
                         THEN [threw |-> FALSE, error |-> NoError, headers |-> hdrs,
                               value |-> RequestValue(Len(requests[r]) + 1)]
                         ELSE globalMiddlewareCode(middleware, f.request, hdrs)
           executed   == ran.value
       IN  IF ~isFunction(middleware)
           THEN /\ Catch(r, PlainError("TypeError", <<"Middleware must be a function">>))
                /\ UNCHANGED <<frame, requests, headers, log>>
           ELSE /\ log' = [log EXCEPT ![r] = Append(@, Event("global", f.gi))]
                /\ requests' =
                       IF rewrite
                       THEN [requests EXCEPT ![r] =
                                Append(@, [requests[r][f.request.ref] EXCEPT
                                               !.path = rSession,
                                               !.headers = Len(headers[r]) + 1])]
                       ELSE requests
                /\ headers' = IF rewrite
                              THEN [headers EXCEPT ![r] =
                                       Append(@, MapSet(hdrs, "x-rewritten", "1"))]
                              ELSE IF isRequest
                              THEN [headers EXCEPT ![r][hdrRef] = ran.headers]
                              ELSE headers
                /\ IF ran.threw
                   THEN Catch(r, ran.error) /\ UNCHANGED frame
                   ELSE IF instanceOfResponse(executed)
                   THEN /\ Return(r, executed.response)
                        /\ frame' = [frame EXCEPT ![r].executed = executed]
                   ELSE /\ frame' = [frame EXCEPT ![r] =
                               [f EXCEPT !.executed = executed, !.request = executed,
                                         !.gi = f.gi + 1,
                                         !.globalRequest =
                                             IF last
                                             THEN lastRequest(RequestValue(1), executed)
                                             ELSE NoValue]]
                        /\ pc' = [pc EXCEPT ![r] = IF last THEN "match" ELSE "global"]
                        /\ UNCHANGED result
    /\ UNCHANGED <<routerVars, probe, input, contexts, previous>>

(***************************************************************************)
(* The route search: new URL(globalRequest.url).pathname against the       *)
(* endpoints of the handler's method.                                      *)
(***************************************************************************)
\* new URL(url): a TypeError unless url is the URL of a request
newURL(r, value) ==
    IF value.type = "request"
    THEN Returned(URLPathname(requests[r][value.ref].path))
    ELSE Threw(<<>>, PlainError("TypeError", <<"Invalid URL">>))

MatchRoute(r) ==
    /\ pc[r] = "match"
    /\ LET f     == frame[r]
           url   == newURL(r, f.globalRequest)
           found == findEndpoint(groups[f.method], config.basePath, url.value)
       IN  IF url.threw
           THEN Catch(r, url.error) /\ UNCHANGED <<frame, log>>
           ELSE /\ log' = [log EXCEPT ![r] = Append(@, Event("match", found))]
                /\ frame' = [frame EXCEPT ![r] =
                       [f EXCEPT !.pathname = url.value, !.endpoint = found]]
                /\ IF found = 0
                   THEN Return(r, NotFoundResponse)
                   ELSE pc' = [pc EXCEPT ![r] = "body"] /\ UNCHANGED result
    /\ UNCHANGED <<routerVars, probe, input, requests, headers, contexts, previous>>

(***************************************************************************)
(* await getBody(globalRequest, endpoint.config)                           *)
(***************************************************************************)
GetBody(r) ==
    /\ pc[r] = "body"
    /\ LET request == TheRequest(r)
           body    == getBody(request.method, headers[r][request.headers],
                              request.payload, TheEndpoint(r).config)
       IN  /\ log' = [log EXCEPT ![r] = Append(@, Event("body", 0))]
           /\ IF body.threw
              THEN Catch(r, body.error) /\ UNCHANGED frame
              ELSE /\ frame' = [frame EXCEPT ![r].body = body.value]
                   /\ pc' = [pc EXCEPT ![r] = "context"]
                   /\ UNCHANGED result
    /\ UNCHANGED <<routerVars, probe, input, requests, headers, contexts, previous>>

(***************************************************************************)
(* getRouteParams, getSearchParams, getHeaders and the context object;     *)
(* the call then enters executeMiddlewares.                                *)
(***************************************************************************)
BuildContext(r) ==
    /\ pc[r] = "context"
    /\ LET f            == frame[r]
           endpoint     == TheEndpoint(r)
           request      == TheRequest(r)
           params       == getRouteParams(withBasePath(config.basePath, endpoint.route),
                                          f.pathname)
           searchParams == getSearchParams(request.query, endpoint.config)
           newHeaders   == getHeaders(headers[r], request.headers)
           context      == [params |-> params.value, searchParams |-> searchParams.value,
                            headers |-> newHeaders.ref, body |-> f.body]
           newContext   == newContextObject(r, contexts)
           none         == endpoint.config.middlewares = <<>>
       IN  /\ log' = [log EXCEPT ![r] = Append(@, Event("context", 0))]
           /\ IF params.threw
              THEN Catch(r, params.error) /\ UNCHANGED <<frame, headers, contexts>>
              ELSE IF searchParams.threw
              THEN Catch(r, searchParams.error) /\ UNCHANGED <<frame, headers, contexts>>
              ELSE /\ headers' = [headers EXCEPT ![r] = newHeaders.heap]
                   /\ contexts' = [contexts EXCEPT ![newContext.owner] =
                                      PutObject(@, newContext.ref, context)]
                   /\ frame' = [frame EXCEPT ![r] =
                          [f EXCEPT !.owner = newContext.owner, !.context = newContext.ref,
                                    !.ctx = newContext.ref, !.mi = 1]]
                   /\ pc' = [pc EXCEPT ![r] = IF none THEN "handler" ELSE "mw"]
                   /\ UNCHANGED result
    /\ UNCHANGED <<routerVars, probe, input, requests, previous>>

\* a loop that would give every middleware the context it started with
nextContextFirst(ctx, returned) == ctx

\* `ctx = await middleware(request, ctx)`: the context the next middleware
\* is given is the one this middleware returned
nextContext(ctx, returned) == returned

(***************************************************************************)
(* executeMiddlewares: the next endpoint middleware runs on ctx.           *)
(***************************************************************************)
EndpointMiddleware(r) ==
    /\ pc[r] = "mw"
    /\ LET f           == frame[r]
           middlewares == TheEndpoint(r).config.middlewares
           middleware  == middlewares[f.mi]
           last        == f.mi = Len(middlewares)
           ctx         == contexts[frame[r].owner][f.ctx]
           \* the middleware returned the context object c
           Continue(c) ==
               /\ frame' = [frame EXCEPT ![r] =
                      [f EXCEPT !.mi = f.mi + 1, !.ctx = nextContext(f.ctx, c)]]
               /\ pc' = [pc EXCEPT ![r] = IF last THEN "handler" ELSE "mw"]
               /\ UNCHANGED result
       IN  IF ~isFunction(middleware)
           THEN /\ Catch(r, PlainError("TypeError", <<"Middleware must be a function">>))
                /\ UNCHANGED <<frame, headers, contexts, log>>
           ELSE /\ log' = [log EXCEPT ![r] = Append(@, Event("mw", f.mi))]
                /\ CASE middleware = "setHeader" ->
                          /\ headers' = [headers EXCEPT ![r][ctx.headers] =
                                 MapSet(@, "session-token", "123abc-token")]
                          /\ UNCHANGED contexts
                          /\ Continue(f.ctx)
                     [] middleware = "setParams" ->
                          /\ contexts' = [contexts EXCEPT ![frame[r].owner][f.ctx].params =
                                 MapSet(EmptyMap, <<"o", "a", "u", "t", "h">>, <<"s">>)]
                          /\ UNCHANGED headers
                          /\ Continue(f.ctx)
                     [] middleware = "newContext" ->
                          /\ contexts' = [contexts EXCEPT ![frame[r].owner] =
                                 Append(@, [ctx EXCEPT !.params =
                                     MapSet(EmptyMap, <<"o", "a", "u", "t", "h">>, <<"g">>)])]
                          /\ UNCHANGED headers
                          /\ Continue(Len(contexts[frame[r].owner]) + 1)
                     [] OTHER ->
                          /\ Catch(r, PlainError("Error", <<"Unauthorized">>))
                          /\ UNCHANGED <<frame, headers, contexts>>
    /\ UNCHANGED <<routerVars, probe, input, requests, previous>>

(***************************************************************************)
(* return endpoint.handler(globalRequest, context)                         *)
(***************************************************************************)
\* what a responding handler answers: its name and the context it was given
HandlerResponse(r, endpoint, request, context) ==
    LET c == contexts[frame[r].owner][context]
    IN  [status |-> 200, statusText |-> "", message |-> <<endpoint.handler.tag>>,
         from |-> "handler",
         seen |-> [request |-> request, context |-> context, params |-> c.params,
                   searchParams |-> c.searchParams, headers |-> headers[r][c.headers],
                   body |-> c.body]]

\* the context object the handler is called with
handlerContext(f) == f.context

\* the promise of an async handler that threw is returned, not awaited:
\* it settles the call's promise outside the try block
returnOfHandler(error) == Rejected(error)

InvokeHandler(r) ==
    /\ pc[r] = "handler"
    /\ LET f        == frame[r]
           endpoint == TheEndpoint(r)
           error    == PlainError("Error", <<"Unexpected error">>)
           thrown   == IF endpoint.handler.tag = "empty"
                       THEN AuraStackRouterError("NO_CONTENT", <<"Nothing">>)
                       ELSE AuraStackRouterError("BAD_REQUEST", <<"Bad input">>)
       IN  /\ log' = [log EXCEPT ![r] = Append(@, Event("handler", f.endpoint))]
           /\ CASE endpoint.handler.kind = "respond" ->
                     Return(r, HandlerResponse(r, endpoint, f.globalRequest.ref,
                                               handlerContext(f)))
                [] endpoint.handler.kind = "throwSync" ->
                     Catch(r, error)
                [] endpoint.handler.kind = "throwRouter" ->
                     Catch(r, thrown)
                [] endpoint.handler.kind = "throwAsync" ->
                     /\ pc' = [pc EXCEPT ![r] = "done"]
                     /\ result' = [result EXCEPT ![r] = returnOfHandler(error)]
    /\ UNCHANGED <<routerVars, probe, input, frame, requests, headers, contexts, previous>>

Next ==
    \/ \E r \in active : Call(r)
    \/ \E r \in active : Repeat(r)
    \/ \E r \in active : GlobalMiddleware(r)
    \/ \E r \in active : MatchRoute(r)
    \/ \E r \in active : GetBody(r)
    \/ \E r \in active : BuildContext(r)
    \/ \E r \in active : EndpointMiddleware(r)
    \/ \E r \in active : InvokeHandler(r)

\* one call at a time, on every router of the model
Spec == Init /\ [][Next]_vars

\* two calls in flight on one router, their steps interleaved
InitPair ==
    /\ \E args \in PairRouterArgs, middlewares \in PairGlobalConfigs : Built(args, middlewares)
    /\ active = Calls
    /\ Idle
    /\ probe = NoProbe

SpecPair == InitPair /\ [][Next]_vars

(***************************************************************************)
(* createRoutePattern and getRouteParams called on their own, on every     *)
(* route and path of a bounded length.                                     *)
(***************************************************************************)
\* the strings of length at most n over the characters of S
RECURSIVE StringsUpTo(_, _)
StringsUpTo(S, n) ==
    IF n = 0 THEN { <<>> }
    ELSE LET shorter == StringsUpTo(S, n - 1)
         IN  shorter \cup { Append(s, c) : s \in shorter, c \in S }

\* route patterns: '/' and then characters that isValidRoute accepts
ProbeRoutes ==
    { r \in { <<SLASH>> \o s : s \in StringsUpTo({SLASH, COLON, "a"}, MaxRouteLen) } :
        isValidRoute(r) }

\* pathnames with percent-escapes: /%20, /a/%41, and the malformed /% and /%a
EscapedPaths ==
    { <<"/", "%", "2", "0">>, <<"/", "a", "/", "%", "4", "1">>,
      <<"/", "%">>, <<"/", "%", "a">> }

\* pathnames: '/' and then any characters
ProbePaths ==
    { <<SLASH>> \o s : s \in StringsUpTo({SLASH, "a", "b"}, MaxPathLen) } \cup EscapedPaths

InitPattern ==
    /\ Built([endpoints |-> <<>>, basePath |-> <<>>, onError |-> NoHook], NoMiddlewares)
    /\ active = {}
    /\ Idle
    /\ \E route \in ProbeRoutes, path \in ProbePaths :
           probe = [NoProbe EXCEPT !.pc = "called", !.route = route, !.path = path]

\* const regex = createRoutePattern(route)
CompilePattern ==
    /\ probe.pc = "called"
    /\ probe' = [probe EXCEPT !.pc = "compiled", !.regex = createRoutePattern(probe.route)]
    /\ UNCHANGED <<routerVars, input, pc, frame, requests, headers, contexts, log, result,
                   previous>>

\* regex.test(path)
TestPattern ==
    /\ probe.pc = "compiled"
    /\ probe' = [probe EXCEPT !.pc = "tested", !.matched = RegexTest(probe.regex, probe.path)]
    /\ UNCHANGED <<routerVars, input, pc, frame, requests, headers, contexts, log, result,
                   previous>>

\* getRouteParams(route, path)
ExtractParams ==
    /\ probe.pc = "tested"
    /\ probe' = [probe EXCEPT !.pc = "extracted",
                              !.params = getRouteParams(probe.route, probe.path)]
    /\ UNCHANGED <<routerVars, input, pc, frame, requests, headers, contexts, log, result,
                   previous>>

NextPattern == CompilePattern \/ TestPattern \/ ExtractParams

SpecPattern == InitPattern /\ [][NextPattern]_vars

(***************************************************************************)
(* createEndpoint called on its own, with arguments of every kind.         *)
(***************************************************************************)
\* method names: the supported ones, one in lower case, an unknown one and
\* the empty string
EndpointMethods == supportedMethods \cup {"get", "FETCH", ""}

\* route strings: valid ones, and ones that are empty, do not start with
\* '/' or hold a character outside the class
EndpointRoutes ==
    { <<>>, <<"u">>, <<":", "i">>, <<"u", "/">>, <<"/">>, <<"/", "u">>, <<"/", "U", "/", "1">>,
      <<"/", "u", "/", ":", "i">>, <<"/", "u", "-", "_", "0">>, <<"/", "/">>,
      <<"/", "u", "?">>, <<"/", "u", " ">>, <<"/", "u", ".", "a">>, <<"/", "%", "2", "0">>,
      <<"?">>, <<" ", "/", "u">> }

\* handlers: a function, and a value that is not one
EndpointHandlers == {Handler("respond", "probe"), [callable |-> FALSE, kind |-> "", tag |-> "probe"]}

\* configurations: left out, empty, with middlewares, with a schema
EndpointConfigs ==
    {UndefinedConfig, NoConfig, [NoConfig EXCEPT !.middlewares = <<"setHeader">>],
     [NoConfig EXCEPT !.schemas.body = ObjectSchema({"username"})]}

InitEndpoint ==
    /\ Built([endpoints |-> <<>>, basePath |-> <<>>, onError |-> NoHook], NoMiddlewares)
    /\ active = {}
    /\ Idle
    /\ \E method \in EndpointMethods, route \in EndpointRoutes,
          handler \in EndpointHandlers, c \in EndpointConfigs :
           probe = [NoProbe EXCEPT !.pc = "register", !.method = method, !.route = route,
                                   !.handler = handler, !.config = c]

\* createEndpoint(method, route, handler, config)
RegisterEndpoint ==
    /\ probe.pc = "register"
    /\ probe' = [probe EXCEPT !.pc = "registered",
                              !.endpoint = createEndpoint(probe.method, probe.route,
                                                          probe.handler, probe.config)]
    /\ UNCHANGED <<routerVars, input, pc, frame, requests, headers, contexts, log, result,
                   previous>>

NextEndpoint == RegisterEndpoint

SpecEndpoint == InitEndpoint /\ [][NextEndpoint]_vars

(***************************************************************************)
(* Properties.                                                             *)
(***************************************************************************)
\* the URL path of the request the call is routed by: that of the request the
\* global tier gave back, of the caller's while that tier runs
RoutedPath(r) ==
    IF frame[r].globalRequest.type = "request" THEN TheRequest(r).path
    ELSE input[r].request.path

\* the pathname of its URL: the URL of a Request has its dot segments
\* resolved
RoutedPathname(r) == URLPathname(RoutedPath(r))

\* the positions of a call's log where the given step ran
Steps(r, step) == { i \in DOMAIN log[r] : log[r][i].step = step }

\* the place of a step in the order of a dispatch
Rank(step) ==
    CASE step = "global"  -> 1
      [] step = "match"   -> 2
      [] step = "body"    -> 3
      [] step = "context" -> 4
      [] step = "mw"      -> 5
      [] step = "handler" -> 6

\* how many router-global middlewares the router was configured with
GlobalCount == IF config.middlewares.defined THEN Len(config.middlewares.list) ELSE 0

\* the call has settled: its promise is fulfilled or rejected
Settled(r) == pc[r] = "done"

\* the response the caller got, when the promise is fulfilled
Answer(r) == result[r].response

\* Response.json({ message }, { status }) as the caller reads it
Rendered(status, message) ==
    [status |-> status, statusText |-> "", message |-> message, from |-> "router",
     seen |-> NoSeen]

\* C1: in every dispatch the steps run in one fixed order: the router-global
\* middlewares in list order and all of them before route matching, route
\* matching and context building before any endpoint middleware, the endpoint
\* middlewares in list order and all of them before the handler; and the same
\* call made a second time runs the same steps in the same order.
C1_FixedOrder ==
    \A r \in active :
        /\ \A i, j \in DOMAIN log[r] :
               i < j => Rank(log[r][i].step) <= Rank(log[r][j].step)
        /\ \A i \in Steps(r, "global") : log[r][i].i = i
        /\ \A i \in Steps(r, "mw") :
               log[r][i].i = Cardinality({ j \in Steps(r, "mw") : j <= i })
        /\ \A s \in {"match", "body", "context", "handler"} : Cardinality(Steps(r, s)) <= 1
        /\ Steps(r, "match") # {} => Cardinality(Steps(r, "global")) = GlobalCount
        /\ Steps(r, "mw") # {} => Steps(r, "match") # {} /\ Steps(r, "context") # {}
        /\ Steps(r, "handler") # {} =>
               /\ Steps(r, "match") # {} /\ Steps(r, "context") # {}
               /\ Cardinality(Steps(r, "mw")) = Len(TheEndpoint(r).config.middlewares)
        /\ previous[r].ran =>
               /\ Len(log[r]) <= Len(previous[r].log)
               /\ log[r] = SubSeq(previous[r].log, 1, Len(log[r]))
               /\ Settled(r) => log[r] = previous[r].log /\ result[r] = previous[r].result

\* a repeated dispatch in which a global middleware, an endpoint middleware
\* and the handler all ran
C1_Witness ==
    \E r \in active :
        /\ previous[r].ran /\ Settled(r)
        /\ Steps(r, "global") # {} /\ Steps(r, "mw") # {} /\ Steps(r, "handler") # {}

\* C2: once a router-global middleware has returned a Response, the call is
\* settled with exactly that response and nothing but global middlewares ran:
\* the middleware that returned it is the last step, no endpoint was searched,
\* no body decoded, no context built, no endpoint middleware or handler called.
C2_GlobalShortCircuit ==
    \A r \in active :
        frame[r].executed.type = "response" =>
            /\ Settled(r)
            /\ result[r] = Fulfilled(frame[r].executed.response, NoError)
            /\ \A i \in DOMAIN log[r] : log[r][i].step = "global"
            /\ Len(log[r]) = frame[r].gi
            /\ frame[r].endpoint = 0
            /\ contexts[r] = <<>>

\* a global middleware returned a Response although a later global middleware
\* was configured and an endpoint matches the request
C2_Witness ==
    \E r \in active :
        /\ frame[r].executed.type = "response"
        /\ Settled(r)
        /\ frame[r].gi < Len(config.middlewares.list)
        /\ findEndpoint(groups[frame[r].method], config.basePath,
                        input[r].request.path) # 0

\* C3: no call of an exposed method handler ends with its promise rejected:
\* whichever step raised, the caller gets a response.
C3_NeverPropagates ==
    \A r \in active : result[r].state # "rejected"

\* C4: every error the catch block caught that is not a router error is
\* answered with status 500 and the message "Internal Server Error", so two
\* calls that failed with different messages have got the same response.
C4_GenericInternalError ==
    \A r1, r2 \in active :
        (/\ result[r1].state = "fulfilled" /\ result[r1].caught # NoError
         /\ ~result[r1].caught.isRouter
         /\ result[r2].state = "fulfilled" /\ result[r2].caught # NoError
         /\ ~result[r2].caught.isRouter)
        => /\ Answer(r1) = Rendered(500, <<"Internal Server Error">>)
           /\ Answer(r1) = Answer(r2)

\* two calls have failed with non-router errors whose messages differ
C4_Witness ==
    \E r1, r2 \in active :
        /\ Settled(r1) /\ Settled(r2)
        /\ result[r1].caught # NoError /\ ~result[r1].caught.isRouter
        /\ result[r2].caught # NoError /\ ~result[r2].caught.isRouter
        /\ result[r1].caught.message # result[r2].caught.message

\* the segments of a path, the leading '/' left out
Segments(path) == Split(Tail(path))

\* a route matches a path segment by segment: a ":name" segment takes any
\* non-empty segment, any other segment only itself
SegmentsMatch(route, path) ==
    LET rs == Segments(route)
        ps == Segments(path)
    IN  /\ Len(rs) = Len(ps)
        /\ \A k \in DOMAIN rs :
               IF Len(rs[k]) > 1 /\ rs[k][1] = COLON
               THEN ps[k] # <<>>
               ELSE ps[k] = rs[k]

\* no endpoint registered for the handler's method matches the path the
\* caller asked for
NoRouteMatches(r) ==
    \A i \in DOMAIN endpoints :
        endpoints[i].method = input[r].method =>
            ~SegmentsMatch(withBasePath(config.basePath, endpoints[i].route),
                           RoutedPathname(r))

\* C5: a call that reaches route matching with a path that no endpoint of the
\* handler's method matches is answered 404 "Not Found" and runs neither an
\* endpoint middleware nor a handler; a path in another letter case or with a
\* trailing slash is such a path.
C5_NotFound ==
    \A r \in active :
        (/\ Steps(r, "match") # {}
         /\ NoRouteMatches(r) \/ RoutedPath(r) \in {pUpper, pSlash})
        => /\ Settled(r)
           /\ result[r] = Fulfilled(Rendered(404, <<"Not Found">>), NoError)
           /\ Steps(r, "mw") = {} /\ Steps(r, "handler") = {}

\* GET /U/1 on the router that has GET /u/:id was answered 404
C5_Witness ==
    \E r \in active :
        /\ Settled(r)
        /\ endpoints = usersRouter
        /\ input[r].method = "GET"
        /\ input[r].request.path = pUpper
        /\ Answer(r).status = 404

\* C6: a settled call whose request method is no HTTP method is answered 405
\* "The HTTP method '<M>' is not supported", and one whose method is an HTTP
\* method the router has no endpoint for is answered 405 "... is not allowed".
C6_MethodRejected ==
    \A r \in active :
        LET method == input[r].request.method
        IN  Settled(r) =>
                /\ ~isSupportedMethod(method) =>
                       /\ result[r].state = "fulfilled"
                       /\ Answer(r).status = 405
                       /\ Answer(r).message = <<"The HTTP method '", method, "' is not supported">>
                /\ isSupportedMethod(method) /\ method \notin server =>
                       /\ result[r].state = "fulfilled"
                       /\ Answer(r).status = 405
                       /\ Answer(r).message = <<"The HTTP method '", method, "' is not allowed">>

\* the request carries a JSON body that the body schema of the matched
\* endpoint rejects
BodyRejected(r) ==
    /\ frame[r].endpoint # 0
    /\ LET request == input[r].request
           schema  == TheEndpoint(r).config.schemas.body
       IN  /\ schema.defined
           /\ isSupportedBodyMethod(request.method)
           /\ "content-type" \in DOMAIN request.headers
           /\ request.headers["content-type"] = "application/json"
           /\ request.payload.kind = "json"
           /\ ~safeParse(schema, request.payload.json).success

\* the request has a query string that the search-params schema of the
\* matched endpoint rejects, and the body was accepted
SearchParamsRejected(r) ==
    /\ frame[r].endpoint # 0
    /\ Steps(r, "context") # {}
    /\ LET schema == TheEndpoint(r).config.schemas.searchParams
       IN  /\ schema.defined
           /\ ~safeParse(schema, input[r].request.query).success

\* C7: a settled call whose input a schema rejected is answered 422, with the
\* message "Invalid request body" for the body and a message that begins
\* with "Invalid search parameters" for the query string.
C7_ValidationStatus ==
    \A r \in active :
        Settled(r) =>
            /\ BodyRejected(r) =>
                   /\ Answer(r).status = 422
                   /\ Answer(r).message = <<"Invalid request body">>
            /\ SearchParamsRejected(r) =>
                   /\ Answer(r).status = 422
                   /\ Len(Answer(r).message) >= 1
                   /\ Answer(r).message[1] = "Invalid search parameters: "

\* C8: in a call whose body or query string a schema rejected, no endpoint
\* middleware and no handler ever runs.
C8_NoHandlerAfterRejection ==
    \A r \in active :
        BodyRejected(r) \/ SearchParamsRejected(r) =>
            Steps(r, "mw") = {} /\ Steps(r, "handler") = {}

\* the query string of a settled call was rejected and the matched endpoint
\* has endpoint middlewares
C8_Witness ==
    \E r \in active :
        /\ Settled(r)
        /\ SearchParamsRejected(r)
        /\ TheEndpoint(r).config.middlewares # <<>>

\* C9: the router has a handler for exactly the methods of the endpoints it
\* was built from, and none when it was built from no endpoint.
C9_HandlersPerMethod ==
    /\ \A method \in supportedMethods :
           method \in server <=> \E i \in DOMAIN endpoints : endpoints[i].method = method
    /\ server \subseteq supportedMethods
    /\ endpoints = <<>> => server = {}

\* a router built from GET and POST endpoints only
C9_Witness ==
    /\ endpoints # <<>>
    /\ server = {"GET", "POST"}
    /\ \E i \in DOMAIN endpoints : endpoints[i].method = "POST"

\* the endpoints of the handler's method whose pattern matches the pathname
Matching(r) ==
    { i \in DOMAIN endpoints :
        /\ endpoints[i].method = frame[r].method
        /\ RegexTest(createRoutePattern(withBasePath(config.basePath, endpoints[i].route)),
                     frame[r].pathname) }

\* C10: the endpoint a call is dispatched to is the earliest endpoint of the
\* list given to createRouter that has the handler's method and a pattern
\* matching the path, and a response of a handler comes from that endpoint.
C10_FirstMatchWins ==
    \A r \in active :
        frame[r].endpoint # 0 =>
            /\ Matching(r) # {}
            /\ LET first == CHOOSE i \in Matching(r) : \A j \in Matching(r) : i <= j
               IN  /\ TheEndpoint(r) = endpoints[first]
                   /\ (Settled(r) /\ Answer(r).from = "handler") =>
                          Answer(r).message = <<endpoints[first].handler.tag>>

\* with /u/:id registered before /u/me, the path /u/me reached /u/:id
C10_Witness ==
    \E r \in active :
        /\ endpoints = <<getUser, getMe>>
        /\ frame[r].pathname = rMe
        /\ Settled(r)
        /\ Answer(r).message = <<"getUser">>

\* C11: on a router built with a basePath, a call that reaches route matching
\* is dispatched only to an endpoint whose route, with the basePath put in
\* front, matches the path; the path of a route without the basePath in front
\* is answered 404 "Not Found".
C11_BasePath ==
    \A r \in active :
        (config.basePath # <<>> /\ Steps(r, "match") # {}) =>
            /\ frame[r].endpoint # 0 =>
                   SegmentsMatch(config.basePath \o TheEndpoint(r).route,
                                 RoutedPathname(r))
            /\ (\E i \in DOMAIN endpoints :
                    /\ endpoints[i].method = input[r].method
                    /\ SegmentsMatch(config.basePath \o endpoints[i].route,
                                     RoutedPathname(r)))
               => frame[r].endpoint # 0
            /\ (\E i \in DOMAIN endpoints : RoutedPathname(r) = endpoints[i].route) =>
                   /\ Settled(r)
                   /\ result[r] = Fulfilled(Rendered(404, <<"Not Found">>), NoError)

\* on the router with basePath /a/v1, GET /a/v1/u was answered by the handler
\* of /u
C11_Witness ==
    \E r \in active :
        /\ config.basePath = apiV1
        /\ input[r].request.path = apiV1 \o rUsers
        /\ Settled(r)
        /\ Answer(r).from = "handler"
        /\ Answer(r).message = <<"getUsers">>

\* on the router with basePath /a/v1, GET /u was answered 404
C11_WitnessBare ==
    \E r \in active :
        /\ config.basePath = apiV1
        /\ input[r].method = "GET"
        /\ input[r].request.path = rUsers
        /\ Settled(r)
        /\ Answer(r).status = 404

\* the first ':' of a segment that has a character after it, 0 when none
FirstParamColon(s) ==
    LET at == { k \in 1..(Len(s) - 1) : s[k] = COLON }
    IN  IF at = {} THEN 0 ELSE CHOOSE k \in at : \A j \in at : k <= j

\* the path has as many segments as the route and every segment of the
\* route that does not begin with ':' is the segment of the path
SameLiteralSegments(route, path) ==
    LET rs == Segments(route)
        ps == Segments(path)
    IN  /\ Len(rs) = Len(ps)
        /\ \A k \in DOMAIN rs :
               (rs[k] = <<>> \/ rs[k][1] # COLON) => ps[k] = rs[k]

SegmentsAccepted(route, path) ==
    LET rs == Segments(route)
        ps == Segments(path)
    IN  /\ Len(rs) = Len(ps)
        /\ \A k \in DOMAIN rs :
               LET c == FirstParamColon(rs[k])
               IN  IF c = 0 THEN ps[k] = rs[k]
                   ELSE /\ Len(ps[k]) >= c
                        /\ SubSeq(ps[k], 1, c - 1) = SubSeq(rs[k], 1, c - 1)

DynamicSegments(route) ==
    { k \in DOMAIN Segments(route) : Segments(route)[k] # <<>> /\ Segments(route)[k][1] = COLON }

\* a route in which ':' only begins a segment, every such segment has a
\* name, and no name is used twice
OrdinaryRoute(route) ==
    LET rs == Segments(route)
    IN  /\ \A k \in DOMAIN rs : \A i \in DOMAIN rs[k] : rs[k][i] = COLON => i = 1 /\ Len(rs[k]) > 1
        /\ \A j, k \in DynamicSegments(route) : rs[j] = rs[k] => j = k

\* what the statement of C13 says of the value getRouteParams gave
ParamsAsStated(got) ==
    LET rs  == Segments(probe.route)
        ps  == Segments(probe.path)
        dyn == DynamicSegments(probe.route)
    IN  IF ~probe.matched \/ dyn = {}
        THEN got = EmptyMap
        ELSE /\ DOMAIN got = { Tail(rs[k]) : k \in dyn }
             /\ \A k \in dyn : got[Tail(rs[k])] = decodeURIComponent(ps[k]).value

\* C13: on a route whose ':' are all the first character of a named segment,
\* with distinct names, getRouteParams returns a map: the empty map when the
\* path does not match the route or the route has no ":name" segment, and
\* otherwise one entry per ":name" segment of the route, the name mapped to
\* the percent-decoded segment of the path at the same place.
C13_RouteParams ==
    (probe.pc = "extracted" /\ OrdinaryRoute(probe.route)) =>
        /\ ~probe.params.threw
        /\ ParamsAsStated(probe.params.value)

\* the same, for the calls of getRouteParams that returned
C13_RouteParamsReturned ==
    (probe.pc = "extracted" /\ OrdinaryRoute(probe.route) /\ ~probe.params.threw) =>
        ParamsAsStated(probe.params.value)

\* getRouteParams raised on a path that matches the route
C13_Raised ==
    /\ probe.pc = "extracted"
    /\ probe.matched
    /\ probe.params.threw
    /\ probe.params.error.name = "URIError"

\* the params an endpoint middleware of the model sets
ParamsSetInPlace == MapSet(EmptyMap, <<"o", "a", "u", "t", "h">>, <<"s">>)

\* the places of a middleware list where the given middleware stands
Places(ms, middleware) == { i \in DOMAIN ms : ms[i] = middleware }

\* what a handler's response tells of the context the handler was given
Seen(r) == Answer(r).seen

\* the handler of the call was invoked and has answered
Handled(r) == Settled(r) /\ result[r].state = "fulfilled" /\ Answer(r).from = "handler"

\* the handler saw the header an endpoint middleware set in place, and the
\* params an endpoint middleware assigned in place when no later middleware
\* has replaced them
SeesChangesInPlace(r) ==
    LET ms == TheEndpoint(r).config.middlewares
    IN  /\ Places(ms, "setHeader") # {} => "session-token" \in DOMAIN Seen(r).headers
        /\ (/\ Places(ms, "setParams") # {}
            /\ \A i \in Places(ms, "newContext") : \E j \in Places(ms, "setParams") : i < j)
           => Seen(r).params = ParamsSetInPlace

\* C14: what an endpoint middleware changed in place in the context it was
\* given (a header set, the params replaced) is what the handler sees.
C14_ChangesInPlaceSeen ==
    \A r \in active : Handled(r) => SeesChangesInPlace(r)

\* the same, for the endpoints none of whose middlewares returns a new
\* context object
C14_ChangesInPlaceSeenSameObject ==
    \A r \in active :
        (Handled(r) /\ Places(TheEndpoint(r).config.middlewares, "newContext") = {})
        => SeesChangesInPlace(r)

\* a handler has answered after a middleware that returned a new context
\* object and a later one that replaced the params of the context it got
C14_Witness ==
    \E r \in active :
        /\ Handled(r)
        /\ TheEndpoint(r).config.middlewares = <<"newContext", "setParams">>

\* C15: the handler is called with the context object that the last endpoint
\* middleware returned (the context the router built when the endpoint has
\* no middleware).
C15_FinalContext ==
    \A r \in active :
        Handled(r) =>
            /\ Seen(r).context = frame[r].ctx
            /\ Seen(r).params = contexts[r][frame[r].ctx].params

\* a handler has answered after a middleware that returned a new context
\* object
C15_Witness ==
    \E r \in active :
        /\ Handled(r)
        /\ TheEndpoint(r).config.middlewares = <<"newContext">>
        /\ frame[r].ctx # frame[r].context

\* an endpoint middleware of the call has set a header in its context
HeaderSetByMiddleware(r) ==
    \E i \in Steps(r, "mw") : TheEndpoint(r).config.middlewares[log[r][i].i] = "setHeader"

\* C16: the headers of the context are an object of their own that holds
\* the entries of the request's headers; a header that an endpoint
\* middleware sets in the context is in the context's headers and the
\* request's headers stay as they were.
C16_HeadersCopied ==
    \A r \in active :
        frame[r].context # 0 =>
            LET ofRequest == TheRequest(r).headers
                ofContext == contexts[r][frame[r].context].headers
                added     == IF HeaderSetByMiddleware(r) THEN {"session-token"} ELSE {}
            IN  /\ ofContext # ofRequest
                /\ DOMAIN headers[r][ofContext] = DOMAIN headers[r][ofRequest] \cup added
                /\ \A h \in DOMAIN headers[r][ofRequest] :
                       headers[r][ofContext][h] = headers[r][ofRequest][h]
                /\ "session-token" \notin DOMAIN headers[r][ofRequest]

\* a handler has answered a request that came with an authorization header
\* after a middleware set the header session-token in the context
C16_Witness ==
    \E r \in active :
        /\ Handled(r)
        /\ HeaderSetByMiddleware(r)
        /\ "authorization" \in DOMAIN Seen(r).headers
        /\ "session-token" \in DOMAIN Seen(r).headers
        /\ "authorization" \in DOMAIN headers[r][TheRequest(r).headers]

\* the call reached the body step and the step threw
BodyStepThrew(r) ==
    /\ Steps(r, "body") # {}
    /\ Steps(r, "context") = {}
    /\ Settled(r)

\* the error the body step raised, NoError when it raised none
BodyError(r) == IF BodyStepThrew(r) THEN result[r].caught ELSE NoError

\* C17: a call whose request method is not POST, PUT or PATCH and that
\* reached the body step has an undefined body in its context, whatever the
\* content type and the payload, and the body step raises nothing: no body
\* schema was applied, and the handler that answers saw the undefined body.
C17_BodyOnlyForBodyMethods ==
    \A r \in active :
        (/\ Steps(r, "body") # {}
         /\ TheRequest(r).method \notin {"POST", "PUT", "PATCH"})
        => /\ ~BodyStepThrew(r)
           /\ Steps(r, "context") # {} => frame[r].body = BodyValue("undefined", NoPayload)
           /\ Handled(r) => Seen(r).body = BodyValue("undefined", NoPayload)

\* a DELETE request with a JSON payload the body schema would reject, passed
\* to the POST handler, was answered by the handler with an undefined body
C17_Witness ==
    \E r \in active :
        /\ Handled(r)
        /\ input[r].method = "POST"
        /\ input[r].request.method = "DELETE"
        /\ input[r].request.headers = ContentType("application/json")
        /\ input[r].request.payload = JsonPayload(PartialCredentials)
        /\ TheEndpoint(r).config.schemas.body.defined
        /\ Seen(r).body.type = "undefined"

\* the content type the client declared: none when the request has no
\* Content-Type header or only the one the Request constructor gives a
\* string body
DeclaredContentType(request) ==
    IF "content-type" \notin DOMAIN request.headers THEN ""
    ELSE IF request.headers["content-type"] = "text/plain;charset=UTF-8" THEN ""
    ELSE request.headers["content-type"]

\* the kinds of content the decoder recognises, over the header values of
\* the model
RecognizedContentTypes ==
    {"application/json", "application/x-www-form-urlencoded", "multipart/form-data",
     "text/plain", "text/html", "application/octet-stream", "image/png", "video/mp4",
     "audio/mpeg"}

\* nothing after the body step can keep the call from its handler: every
\* endpoint middleware is a function that does not throw and the query
\* string is accepted
NothingElseRejects(r) ==
    /\ \A i \in DOMAIN TheEndpoint(r).config.middlewares :
           TheEndpoint(r).config.middlewares[i] \notin {"throws", NotFunction}
    /\ ~SearchParamsRejected(r)

\* C18: a POST, PUT or PATCH request that declares no content type, or one
\* that is not recognised, is never rejected by the body step: the context
\* is built with the payload as text (a string payload without a declared
\* type) or with no body, and the handler is invoked with that body.
C18_PermissiveContentType ==
    \A r \in active :
        (/\ Steps(r, "body") # {}
         /\ TheRequest(r).method \in {"POST", "PUT", "PATCH"}
         /\ DeclaredContentType(input[r].request) \notin RecognizedContentTypes)
        => LET payload == input[r].request.payload
               lenient == IF payload.kind \in {"json", "text"}
                             /\ DeclaredContentType(input[r].request) = ""
                          THEN BodyValue("text", payload)
                          ELSE BodyValue("null", NoPayload)
           IN  /\ ~BodyStepThrew(r)
               /\ Steps(r, "context") # {} => frame[r].body = lenient
               /\ (Settled(r) /\ NothingElseRejects(r))
                  => Handled(r) /\ Seen(r).body = lenient

\* a POST request with a JSON payload under a content type the decoder does
\* not know was answered by the handler, with no body
C18_Witness ==
    \E r \in active :
        /\ Handled(r)
        /\ input[r].request.method = "POST"
        /\ input[r].request.payload.kind = "json"
        /\ input[r].request.headers = ContentType("application/xml")
        /\ Seen(r).body.type = "null"

\* a POST request with a binary payload and no content type was answered by
\* the handler, with no body
C18_WitnessAbsent ==
    \E r \in active :
        /\ Handled(r)
        /\ input[r].request.method = "POST"
        /\ input[r].request.payload = BytesPayload
        /\ "content-type" \notin DOMAIN input[r].request.headers
        /\ Seen(r).body.type = "null"

\* the Content-Type header of the request as the router reads it, "" when
\* the request has none
EffectiveContentType(request) ==
    IF "content-type" \in DOMAIN request.headers THEN request.headers["content-type"] ELSE ""

\* a POST request to an endpoint with a body schema, with a content type
\* that is not JSON, which nothing but the body step could stop
NotJsonToSchema(r) ==
    /\ Steps(r, "body") # {}
    /\ TheEndpoint(r).config.schemas.body.defined
    /\ TheRequest(r).method = "POST"
    /\ EffectiveContentType(input[r].request) # "application/json"
    /\ NothingElseRejects(r)

CaughtRouterError(r) == Settled(r) /\ result[r].caught.isRouter

\* the names of the status-code table that stand for a status
NamesOf(status) ==
    { statusCodeEntries[k][1] : k \in { i \in DOMAIN statusCodeEntries :
                                          statusCodeEntries[i][2] = status } }

\* the caller got a response with the error's own status, status text and
\* message, and the status text is the one name of the error's status
RenderedAsItself(r) ==
    LET error == result[r].caught
    IN  /\ result[r].state = "fulfilled"
        /\ Answer(r).from = "router"
        /\ Answer(r).status = error.status
        /\ Answer(r).statusText = error.statusText
        /\ Answer(r).message = error.message
        /\ NamesOf(error.status) = {error.statusText}

\* C20: a router error the catch block caught is rendered as a response
\* with the error's own status, status text and message, and the status text
\* is the name that maps to the status code.
C20_RouterErrorRendered ==
    \A r \in active : CaughtRouterError(r) => RenderedAsItself(r)

\* C20 for a status that a response with a body may have: the router error
\* is rendered with its own status, status text and message.
C20_RenderableRouterErrorRendered ==
    \A r \in active :
        (CaughtRouterError(r) /\ result[r].caught.status \notin nullBodyStatus)
        => RenderedAsItself(r)

\* a handler threw a router error of type BAD_REQUEST and the caller got
\* the response 400 BAD_REQUEST with the error's message
C20_Witness ==
    \E r \in active :
        /\ CaughtRouterError(r)
        /\ Answer(r) = JsonResponse(<<"Bad input">>, 400, "BAD_REQUEST")

\* a handler threw a router error of type NO_CONTENT and the call ended
\* with its promise rejected by a TypeError
C20_Raised ==
    \E r \in active :
        /\ CaughtRouterError(r)
        /\ result[r].caught.status = 204
        /\ result[r].state = "rejected"
        /\ result[r].error.name = "TypeError"

\* the catch block of the call caught an error
CaughtError(r) == Settled(r) /\ result[r].caught # NoError

\* C21: on a router configured with an onError hook, every error the catch
\* block caught went to the hook, once, and the caller got the hook's
\* response, or the fixed 500 response when the hook itself raised.
C21_OnErrorHook ==
    \A r \in active :
        (CaughtError(r) /\ config.onError # NoHook)
        => /\ Cardinality(Steps(r, "onError")) = 1
           /\ result[r].state = "fulfilled"
           /\ config.onError = "responds" => Answer(r).from = "hook"
           /\ config.onError = "throws"
              => Answer(r) = Rendered(500, <<"Internal Server Error">>)

\* on a router configured with an onError hook a handler threw a router
\* error, and the caller got the router's own rendering of it, the hook
\* never called
C21_HookIgnored ==
    \E r \in active :
        /\ CaughtError(r)
        /\ config.onError = "responds"
        /\ Steps(r, "onError") = {}
        /\ Answer(r) = JsonResponse(<<"Bad input">>, 400, "BAD_REQUEST")

\* the characters of the class [a-zA-Z0-9/_:-], among those of the probe
InRouteClass(c) == c \notin {"?", " ", ".", "%"}

\* the route matches ^/[A-Za-z0-9/_:-]*$
RouteWellFormed(route) ==
    /\ route # <<>>
    /\ route[1] = "/"
    /\ \A i \in 2..Len(route) : InRouteClass(route[i])

\* what createEndpoint does with its arguments, given the methods it is to
\* accept: it returns the endpoint {method, route, handler, config}, the
\* config {} when none was given, exactly when the method is one of them,
\* the route is well formed and the handler is callable, and throws
\* otherwise
Registers(methods) ==
    probe.pc = "registered" =>
        LET accepted == /\ probe.method \in methods
                        /\ RouteWellFormed(probe.route)
                        /\ probe.handler.callable
        IN  /\ ~probe.endpoint.threw <=> accepted
            /\ probe.endpoint.threw => probe.endpoint.value = NoEndpoint
            /\ ~probe.endpoint.threw =>
                   probe.endpoint.value =
                       [method |-> probe.method, route |-> probe.route,
                        handler |-> probe.handler,
                        config |-> IF probe.config = UndefinedConfig THEN NoConfig
                                   ELSE probe.config]

\* C22: createEndpoint accepts its arguments if and only if the method is
\* GET, POST, PUT, PATCH or DELETE, the route matches ^/[A-Za-z0-9/_:-]*$ and
\* the handler is callable; otherwise it throws and yields no endpoint; the
\* endpoint it returns is {method, route, handler, config}, config {} by
\* default.
C22_CreateEndpoint == Registers({"GET", "POST", "PUT", "PATCH", "DELETE"})

\* C22 with the nine methods of supportedMethods
C22_CreateEndpointNineMethods ==
    Registers({"GET", "POST", "PUT", "PATCH", "DELETE", "OPTIONS", "HEAD", "TRACE", "CONNECT"})

\* createEndpoint("OPTIONS", "/u", handler) returned an endpoint
C22_OptionsAccepted ==
    /\ probe.pc = "registered"
    /\ probe.method = "OPTIONS"
    /\ probe.route = <<"/", "u">>
    /\ probe.config = UndefinedConfig
    /\ ~probe.endpoint.threw
    /\ probe.endpoint.value.config = NoConfig

\* the error of executeGlobalMiddlewares and executeMiddlewares for an entry
\* that is not a function
NotCallableError == PlainError("TypeError", <<"Middleware must be a function">>)

\* C23: a middleware that is not callable is never found at request time:
\* no call is answered because of one.
C23_NeverAtRequestTime ==
    \A r \in active : ~(Settled(r) /\ result[r].caught = NotCallableError)

\* a router was built with a global middleware list that holds a value that
\* is not a function, and a call on it was answered 500 when the list got to it
C23_AnsweredAtRequestTime ==
    \E r \in active :
        /\ Settled(r)
        /\ config.middlewares.defined
        /\ \E i \in DOMAIN config.middlewares.list : config.middlewares.list[i] = NotFunction
        /\ result[r].caught = NotCallableError
        /\ Answer(r) = Rendered(500, <<"Internal Server Error">>)

\* an endpoint was created with a middleware list that holds a value that is
\* not a function, and a call that reached it was answered 500
C23_EndpointAnsweredAtRequestTime ==
    \E r \in active :
        /\ Settled(r)
        /\ Steps(r, "context") # {}
        /\ \E i \in DOMAIN TheEndpoint(r).config.middlewares :
               TheEndpoint(r).config.middlewares[i] = NotFunction
        /\ result[r].caught = NotCallableError
        /\ Answer(r) = Rendered(500, <<"Internal Server Error">>)

\* how many of the first n entries of a middleware list are of a kind
CountBefore(ms, n, kind) == Cardinality({ i \in 1..n : i <= Len(ms) /\ ms[i] = kind })

\* the steps of a tier ran one after the other in list order, and none ran
\* after one that raised
OneAtATime(r, step, ms) ==
    LET ran == { log[r][i].i : i \in Steps(r, step) }
    IN  /\ ran = 1..Cardinality(ran)
        /\ Cardinality(Steps(r, step)) = Cardinality(ran)
        /\ \A i, j \in Steps(r, step) : i < j => log[r][i].i < log[r][j].i
        /\ \A k \in ran : ms[k] = "throws" => k = Cardinality(ran)

\* a middleware of the call raised
MiddlewareRaised(r, step, ms) ==
    \E i \in Steps(r, step) : ms[log[r][i].i] = "throws"

\* every global middleware that sets a header set it on the request the
\* middleware before it returned, and on no other
GlobalChained(r) ==
    LET ms == config.middlewares.list
    IN  /\ \A i \in Steps(r, "global") :
               ms[log[r][i].i] = "addHeader" =>
                   LET given == 1 + CountBefore(ms, log[r][i].i - 1, "rewrite")
                   IN  "x-powered-by" \in DOMAIN headers[r][requests[r][given].headers]
        /\ \A q \in DOMAIN requests[r] :
               "x-powered-by" \in DOMAIN headers[r][requests[r][q].headers] =>
                   \E i \in Steps(r, "global") :
                       /\ ms[log[r][i].i] = "addHeader"
                       /\ CountBefore(ms, log[r][i].i - 1, "rewrite") <= q - 1

\* every endpoint middleware that assigns the params assigned them in the
\* context object the middleware before it returned, and in no other
EndpointChained(r) ==
    LET ms == TheEndpoint(r).config.middlewares
    IN  /\ \A i \in Steps(r, "mw") :
               ms[log[r][i].i] = "setParams" =>
                   LET given == 1 + CountBefore(ms, log[r][i].i - 1, "newContext")
                   IN  contexts[r][given].params = ParamsSetInPlace
        /\ \A c \in DOMAIN contexts[r] :
               contexts[r][c].params = ParamsSetInPlace =>
                   \E i \in Steps(r, "mw") :
                       /\ ms[log[r][i].i] = "setParams"
                       /\ CountBefore(ms, log[r][i].i - 1, "newContext") <= c - 1

\* C24: within a tier the middlewares run one at a time in list order, each
\* is given what the one before it returned, and after one that raised no
\* later middleware of the call and not the handler runs.
C24_OneAtATimeChained ==
    \A r \in active :
        /\ Steps(r, "global") # {} =>
               /\ OneAtATime(r, "global", config.middlewares.list)
               /\ GlobalChained(r)
               /\ MiddlewareRaised(r, "global", config.middlewares.list) =>
                      /\ Steps(r, "match") = {} /\ Steps(r, "mw") = {}
                      /\ Steps(r, "handler") = {}
        /\ Steps(r, "mw") # {} =>
               /\ OneAtATime(r, "mw", TheEndpoint(r).config.middlewares)
               /\ EndpointChained(r)
               /\ MiddlewareRaised(r, "mw", TheEndpoint(r).config.middlewares) =>
                      Steps(r, "handler") = {}

\* the endpoint middleware after one that returned a new context object
\* assigned the params of that object, and the object the router built kept
\* its own
C24_Witness ==
    \E r \in active :
        /\ Settled(r)
        /\ Steps(r, "handler") # {}
        /\ TheEndpoint(r).config.middlewares = <<"newContext", "setParams">>
        /\ contexts[r][2].params = ParamsSetInPlace
        /\ contexts[r][1].params # ParamsSetInPlace

\* the global middleware after one that returned another request set its
\* header on that request
C24_WitnessGlobal ==
    \E r \in active :
        /\ Settled(r)
        /\ config.middlewares.list = <<"rewrite", "addHeader">>
        /\ "x-powered-by" \in DOMAIN headers[r][requests[r][2].headers]
        /\ "x-powered-by" \notin DOMAIN headers[r][requests[r][1].headers]

\* a middleware raised and the call was answered without its handler
C24_WitnessRaised ==
    \E r \in active :
        /\ Settled(r)
        /\ Steps(r, "mw") # {}
        /\ TheEndpoint(r).config.middlewares = <<"setHeader", "throws">>
        /\ Cardinality(Steps(r, "mw")) = 2
        /\ Steps(r, "handler") = {}

\* the call has built its context object
Built25(r) == frame[r].context # 0

\* the context object the router built for the call holds what was decoded
\* from the call's own request, changed only by the call's own middlewares
OwnContext(r) ==
    LET f    == frame[r]
        ms   == TheEndpoint(r).config.middlewares
        ran  == { log[r][i].i : i \in Steps(r, "mw") }
        own  == getRouteParams(withBasePath(config.basePath, TheEndpoint(r).route),
                               f.pathname).value
        inPlace == \E k \in ran : ms[k] = "setParams" /\ CountBefore(ms, k - 1, "newContext") = 0
        token   == \E k \in ran : ms[k] = "setHeader"
        sent    == headers[r][TheRequest(r).headers]
    IN  /\ f.context \in DOMAIN contexts[f.owner]
        /\ f.ctx \in DOMAIN contexts[f.owner]
        /\ LET c == contexts[f.owner][f.context]
           IN  /\ c.body = f.body
               /\ c.searchParams = getSearchParams(TheRequest(r).query,
                                                   TheEndpoint(r).config).value
               /\ c.params = IF inPlace THEN ParamsSetInPlace ELSE own
               /\ c.headers \in DOMAIN headers[r]
               /\ headers[r][c.headers] =
                      IF token THEN MapSet(sent, "session-token", "123abc-token") ELSE sent
               /\ Handled(r) =>
                      /\ Seen(r).params = c.params
                      /\ Seen(r).searchParams = c.searchParams
                      /\ Seen(r).body = c.body
                      /\ Seen(r).headers = headers[r][c.headers]

\* C25: with two calls in flight on one router, in every interleaving of
\* their steps, each call has a context object of its own, which holds what
\* was decoded from its own request and what its own middlewares changed,
\* also when both calls reach the same endpoint; and the routing table is
\* the one the call started with.
C25_ContextsIsolated ==
    /\ \A r \in active :
           /\ Built25(r) => OwnContext(r)
           /\ frame[r].method # "" => frame[r].groups = groups
    /\ \A r1, r2 \in active :
           (r1 # r2 /\ Built25(r1) /\ Built25(r2)) =>
               /\ <<frame[r1].owner, frame[r1].context>> # <<frame[r2].owner, frame[r2].context>>
               /\ <<frame[r1].owner, frame[r1].ctx>> # <<frame[r2].owner, frame[r2].ctx>>

\* two calls reached the same endpoint with different requests, the
\* middleware of one set a header in its context while the other had built
\* its context and not yet run that middleware, and the other did not see it
C25_Witness ==
    \E r1, r2 \in active :
        /\ r1 # r2
        /\ Built25(r1) /\ Built25(r2)
        /\ frame[r1].endpoint = frame[r2].endpoint
        /\ frame[r1].method = frame[r2].method
        /\ input[r1].request # input[r2].request
        /\ pc[r1] = "mw" /\ frame[r1].mi = 2
        /\ pc[r2] = "mw" /\ frame[r2].mi = 1
        /\ "session-token" \in DOMAIN headers[r1][contexts[r1][frame[r1].context].headers]
        /\ "session-token" \notin DOMAIN headers[r2][contexts[r2][frame[r2].context].headers]

\* the path holds a "." or ".." segment, written plainly or as %2e
HasDotSegment(path) ==
    \E i \in DOMAIN Segments(path) :
        IsSingleDot(Segments(path)[i]) \/ IsDoubleDot(Segments(path)[i])

\* C26: a call that reaches route matching with a path that holds a "." or
\* ".." segment is answered 404 "Not Found" and no handler runs, also when
\* the path with the segments resolved matches a route.
C26_DotSegmentsNotFound ==
    \A r \in active :
        (Settled(r) /\ Steps(r, "match") # {} /\ HasDotSegment(RoutedPath(r)))
        => /\ result[r] = Fulfilled(Rendered(404, <<"Not Found">>), NoError)
           /\ Steps(r, "handler") = {}

\* GET /u/./1 on the router that has GET /u/:id was answered by the handler
\* of /u/:id, with the params of /u/1
C26_DotSegmentsResolved ==
    \E r \in active :
        /\ Handled(r)
        /\ endpoints = usersRouter
        /\ input[r].request.path = pDot
        /\ frame[r].pathname = pUser1
        /\ TheEndpoint(r).route = rUser
        /\ Answer(r).status = 200

\* GET /u/1/.. is answered 404: the resolved path /u/ matches no route
C26_TrailingDotsNotFound ==
    \E r \in active :
        /\ Settled(r)
        /\ endpoints = usersRouter
        /\ input[r].request.path = pDotDotEnd
        /\ Answer(r).status = 404

\* C27: the handler of an endpoint never runs for a request whose method is
\* not the endpoint's: the method handler answers such a request 405 and no
\* endpoint handler is invoked.
C27_NoHandlerForOtherMethod ==
    \A r \in active :
        (input[r].method # "" /\ input[r].request.method # input[r].method)
        => /\ Steps(r, "handler") = {}
           /\ Settled(r) => result[r].state = "fulfilled" /\ Answer(r).status = 405

\* the GET handler was given a PATCH request for /u/1 and the handler of the
\* endpoint GET /u/:id ran and answered it
C27_HandlerRanForOtherMethod ==
    \E r \in active :
        /\ Handled(r)
        /\ input[r].method = "GET"
        /\ input[r].request.method = "PATCH"
        /\ input[r].request.path = pUser1
        /\ TheEndpoint(r).method = "GET"
        /\ TheEndpoint(r).route = rUser
        /\ Answer(r).status = 200

\* the method of the call's request is not an HTTP method, or one the router
\* has no endpoint for
MethodUnknownHere(r) ==
    /\ input[r].method # ""
    /\ ~isSupportedMethod(input[r].request.method) \/ input[r].request.method \notin server

\* C28: a request whose method is unrecognized or has no endpoint on the
\* router is rejected before the global tier: no router-global middleware
\* runs for it, and it is answered 405.
C28_MethodCheckedFirst ==
    \A r \in active :
        MethodUnknownHere(r)
        => /\ Steps(r, "global") = {}
           /\ Settled(r) => result[r].state = "fulfilled" /\ Answer(r).status = 405

\* a request with the method INVALID went through both global middlewares of
\* the router and on to route matching
C28_GlobalRanForUnknownMethod ==
    \E r \in active :
        /\ input[r].request.method = "INVALID"
        /\ GlobalCount = 2
        /\ Cardinality(Steps(r, "global")) = 2
        /\ Steps(r, "match") # {}

\* the request the last global middleware of the router returned, when all
\* of them returned requests: every "rewrite" makes a new one
LastReturned == 1 + CountBefore(config.middlewares.list, GlobalCount, "rewrite")

\* the call is past the global tier
PastGlobal(r) == pc[r] = "match" \/ Steps(r, "match") # {}

\* C29: every step after the global tier works on the request the last
\* global middleware returned: route matching reads its path, the body, the
\* search params and the headers are decoded from it, the handler is given
\* it, and each global middleware is given what the one before it returned.
C29_LastGlobalRequestUsed ==
    \A r \in active :
        (GlobalCount > 0 /\ PastGlobal(r)) =>
            /\ LastReturned \in DOMAIN requests[r]
            /\ GlobalChained(r)
            /\ LET request == requests[r][LastReturned]
                   sent    == headers[r][request.headers]
                   f       == frame[r]
               IN  /\ f.globalRequest = RequestValue(LastReturned)
                   /\ \A i \in Steps(r, "match") :
                          log[r][i].i = findEndpoint(groups[input[r].method], config.basePath,
                                                     URLPathname(request.path))
                   /\ Built25(r) =>
                          LET c == contexts[f.owner][f.context]
                          IN  /\ c.body = getBody(request.method, sent, request.payload,
                                                  TheEndpoint(r).config).value
                              /\ c.searchParams = getSearchParams(request.query,
                                                      TheEndpoint(r).config).value
                              /\ \A k \in DOMAIN sent :
                                     /\ k \in DOMAIN headers[r][c.headers]
                                     /\ headers[r][c.headers][k] = sent[k]
                   /\ Handled(r) => Seen(r).request = LastReturned

\* a global middleware answered the request for /u with a new request for
\* /se: the endpoint GET /se was matched and its handler was given the new
\* request, with the header the middleware set on it
C29_Witness ==
    \E r \in active :
        /\ config.middlewares.defined
        /\ config.middlewares.list = <<"rewrite">>
        /\ input[r].request.path = rUsers
        /\ Handled(r)
        /\ TheEndpoint(r).route = rSession
        /\ Seen(r).request = 2
        /\ "x-rewritten" \in DOMAIN Seen(r).headers

\* the middleware after the rewriting one set its header on the new request,
\* and the handler read it there
C29_WitnessChained ==
    \E r \in active :
        /\ config.middlewares.defined
        /\ config.middlewares.list = <<"rewrite", "addHeader">>
        /\ input[r].request.path = rUsers
        /\ Handled(r)
        /\ Seen(r).request = 2
        /\ "x-powered-by" \in DOMAIN Seen(r).headers
        /\ "x-powered-by" \notin DOMAIN headers[r][requests[r][1].headers]

\* the call matched an endpoint and has reached the extraction of the route
\* parameters
ParamsExtracted(r) == Steps(r, "context") # {}

\* what getRouteParams gave for the endpoint and the pathname of the call
ParamsOf(r) ==
    getRouteParams(withBasePath(config.basePath, TheEndpoint(r).route), frame[r].pathname)

\* C30: getRouteParams never raises, whatever the route and the path, so a
\* request that matches a route is never answered with an error response
\* because of the extraction of its parameters.
C30_ParamsNeverRaise ==
    \A r \in active :
        ParamsExtracted(r) =>
            /\ ~ParamsOf(r).threw
            /\ Settled(r) => result[r].caught.name # "URIError"

\* GET /u/% matched the endpoint GET /u/:id, getRouteParams raised URIError
\* on the segment "%", and the caller got 500
C30_RaisedOnMatch ==
    \E r \in active :
        /\ input[r].request.path = pBadEscape
        /\ Settled(r)
        /\ ParamsExtracted(r)
        /\ TheEndpoint(r).route = rUser
        /\ ParamsOf(r).threw
        /\ result[r].caught.name = "URIError"
        /\ Steps(r, "handler") = {}
        /\ Answer(r).status = 500

====
